---- MODULE Spec2Model ----
(***************************************************************************)
(* Model of nvr.c, the Amstrad PC1640 NVR configuration utility.           *)
(*                                                                         *)
(* The state is the MC146818 register store behind ports 0x70/0x71 plus    *)
(* the record of the last command line that ran against it.  Every command *)
(* of main() is one action: it runs the handler from the store it finds,   *)
(* transaction by transaction, and leaves the resulting store, the list of *)
(* transactions it issued, its exit status and what it reported.           *)
(***************************************************************************)
EXTENDS Integers, Sequences, FiniteSets, TLC

VARIABLES
    cmos,   \* the 64 cells of the register store
    uip,    \* further reads of Register A on which the chip still shows UIP
    pre,    \* the store as the last command found it
    cmd,    \* the last setting command: [name, args]
    rc,     \* its exit status
    log,    \* the store transactions it issued, in order
    rep,    \* the last report command run since: [name, out, log]
    nops,   \* number of setting commands run
    ports,  \* the I/O port registers outside the store
    file    \* the snapshot file on disk: [exists, bytes]

vars == <<cmos, uip, pre, cmd, rc, log, rep, nops, ports, file>>

----------------------------------------------------------------------------
(* Bounds of the model *)

MaxOps == 1
MaxResets == 2
MaxUipReads == 2

----------------------------------------------------------------------------
(* Program constants *)

CMOS_SIZE == 64

RTC_SECONDS == 0
RTC_ALARM_SEC == 1
RTC_MINUTES == 2
RTC_ALARM_MIN == 3
RTC_HOURS == 4
RTC_ALARM_HRS == 5
RTC_DAY_OF_WEEK == 6
RTC_DAY_OF_MONTH == 7
RTC_MONTH == 8
RTC_YEAR == 9
RTC_REG_A == 10
RTC_REG_B == 11
RTC_REG_C == 12
RTC_REG_D == 13

RTC_A_UIP == 128
RTC_D_VRT == 128
RTC_A_RS_MASK == 15
RTC_A_DV_MASK == 112
RTC_A_DV_SHIFT == 4

RTC_B_SET == 128
RTC_B_PIE == 64
RTC_B_AIE == 32
RTC_B_UIE == 16
RTC_B_SQWE == 8
RTC_B_DM == 4
RTC_B_24H == 2
RTC_B_DSE == 1

CMOS_DIAG == 14
CMOS_SHUTDOWN == 15
CMOS_FLOPPY == 16
CMOS_DISK == 18
CMOS_EQUIP == 20
CMOS_BASEMEM_LO == 21
CMOS_BASEMEM_HI == 22
CMOS_EXTMEM_LO == 23
CMOS_EXTMEM_HI == 24
CMOS_DISK0_EXT == 25
CMOS_DISK1_EXT == 26
CMOS_CHECKSUM_HI == 46
CMOS_CHECKSUM_LO == 47
CMOS_CENTURY == 50

CKSUM_FIRST == 16
CKSUM_LAST == 45

ALARM_WILDCARD == 192
RTC_UIP_TIMEOUT == 10000

UINT_MOD == 65536

Byte == 0..255
Addr == 0..(CMOS_SIZE - 1)
Covered == CKSUM_FIRST..CKSUM_LAST

----------------------------------------------------------------------------
(* C integer operators on bytes *)

\* Bit p of a & b, where p is a power of two
AndBit(a, b, p) == ((a \div p) % 2) * ((b \div p) % 2) * p

\* a & b on 16-bit operands
AND(a, b) ==
    AndBit(a, b, 1) + AndBit(a, b, 2) + AndBit(a, b, 4) + AndBit(a, b, 8)
    + AndBit(a, b, 16) + AndBit(a, b, 32) + AndBit(a, b, 64)
    + AndBit(a, b, 128) + AndBit(a, b, 256) + AndBit(a, b, 512)
    + AndBit(a, b, 1024) + AndBit(a, b, 2048) + AndBit(a, b, 4096)
    + AndBit(a, b, 8192) + AndBit(a, b, 16384) + AndBit(a, b, 32768)

OR(a, b) == a + b - AND(a, b)

\* x & ~mask on an unsigned char
ANDNOT(a, mask) == a - AND(a, mask)

U8(x) == x % 256

U16(x) == x % UINT_MOD

----------------------------------------------------------------------------
\* The value of uip for a chip whose UIP bit never clears
UIP_STUCK == 0 - 1

(* The device and the two access primitives.  A machine m is                *)
(* [cmos, uip, log]: the store, the update cycle still pending, and the    *)
(* transactions issued so far by the running command.                      *)

\* Register A as the chip shows it after n earlier reads of it by the running
\* command: UIP is set while an update cycle is pending.
mc146818_reg_a(m, n) ==
    IF m.uip = UIP_STUCK \/ m.uip - n > 0 THEN OR(m.cmos[RTC_REG_A], RTC_A_UIP)
    ELSE m.cmos[RTC_REG_A]

\* What the chip returns for a read of cell a that follows n reads of the same
\* cell: reading Register C clears its flags, so only the first read sees them.
mc146818_value(m, a, n) ==
    IF a = RTC_REG_A THEN mc146818_reg_a(m, n)
    ELSE IF a = RTC_REG_C THEN (IF n = 0 THEN m.cmos[a] ELSE 0)
    ELSE m.cmos[a]

\* The content of cell a after a write of v to it: Registers C and D are
\* read-only, and so is the UIP bit of Register A.
mc146818_store(a, v, old) ==
    IF a = RTC_REG_C \/ a = RTC_REG_D THEN old
    ELSE IF a = RTC_REG_A THEN ANDNOT(v, RTC_A_UIP)
    ELSE v

\* addr &= 0x3F on an unsigned char
mask_addr(addr) == (addr % 256) % 64

cmos_read(m, addr) ==
    LET a == mask_addr(addr)
        v == mc146818_value(m, a, 0)
    IN [val |-> v,
        m |-> [cmos |-> IF a = RTC_REG_C THEN [m.cmos EXCEPT ![a] = 0]
                        ELSE m.cmos,
               uip  |-> IF a = RTC_REG_A /\ m.uip > 0 THEN m.uip - 1
                        ELSE m.uip,
               log  |-> Append(m.log, <<"r", a, v>>)]]

cmos_write(m, addr, val) ==
    LET a == mask_addr(addr)
        v == U8(val)
    IN [cmos |-> [m.cmos EXCEPT ![a] = mc146818_store(a, v, @)],
        uip  |-> m.uip,
        log  |-> Append(m.log, <<"w", a, v>>)]

\* cmos_read() called for each address of the sequence addrs in turn: the
\* i-th read follows the earlier reads of the same cell.
cmos_read_seq(m, addrs) ==
    CHOOSE r \in
        { [vals |-> [i \in 1..Len(as) |-> vs[i]],
           m |-> [cmos |-> IF \E j \in 1..Len(as) : as[j] = RTC_REG_C
                           THEN [mm.cmos EXCEPT ![RTC_REG_C] = 0]
                           ELSE mm.cmos,
                  uip  |-> LET readA == Cardinality({j \in 1..Len(as) :
                                                       as[j] = RTC_REG_A})
                           IN IF mm.uip = UIP_STUCK THEN UIP_STUCK
                              ELSE IF mm.uip > readA THEN mm.uip - readA
                              ELSE 0,
                  log  |-> mm.log \o [i \in 1..Len(as) |->
                                        <<"r", as[i], vs[i]>>]]]
          : <<mm, as, vs>> \in
              { <<m0, a0,
                  [i \in 1..Len(a0) |->
                     mc146818_value(m0, a0[i],
                         IF a0[i] \in {RTC_REG_A, RTC_REG_C}
                         THEN Cardinality({j \in 1..(i - 1) : a0[j] = a0[i]})
                         ELSE 0)]>>
                : m0 \in {m},
                  a0 \in {[i \in 1..Len(ad) |-> mask_addr(ad[i])]
                            : ad \in {addrs}} } }
        : TRUE

\* cmos_write() called for each <<address, value>> of the sequence ws in
\* turn: a cell ends with what the last write to it stored.
cmos_write_seq(m, ws) ==
    CHOOSE r \in
        { [cmos |-> [c \in Addr |->
                       LET hits == {i \in 1..Len(w) : w[i][1] = c}
                       IN IF hits = {} THEN mm.cmos[c]
                          ELSE mc146818_store(c,
                                   w[CHOOSE i \in hits :
                                        \A j \in hits : j <= i][2],
                                   mm.cmos[c])],
           uip  |-> mm.uip,
           log  |-> mm.log \o [i \in 1..Len(w) |-> <<"w", w[i][1], w[i][2]>>]]
          : mm \in {m},
            w \in {[i \in 1..Len(w0) |->
                      <<mask_addr(w0[i][1]), U8(w0[i][2])>>] : w0 \in {ws}} }
        : TRUE

----------------------------------------------------------------------------
(* BCD helpers *)

bcd_to_bin(bcd) == U8((bcd \div 16) * 10 + AND(bcd, 15))

bin_to_bcd_decimal(bin) == U8(OR((bin \div 10) * 10, bin % 10))

bin_to_bcd(bin) == U8(OR((bin \div 10) * 16, bin % 10))

rtc_is_bcd(m) ==
    LET r == cmos_read(m, RTC_REG_B)
    IN [val |-> AND(r.val, RTC_B_DM) = 0, m |-> r.m]

rtc_to_bin(m, val) ==
    LET b == rtc_is_bcd(m)
    IN [val |-> IF b.val THEN bcd_to_bin(U8(val)) ELSE U8(val), m |-> b.m]

bin_to_rtc(m, val) ==
    LET b == rtc_is_bcd(m)
    IN [val |-> IF b.val THEN bin_to_bcd(U8(val)) ELSE U8(val), m |-> b.m]

uip_reads_post_decrement(m) ==
    IF m.uip = UIP_STUCK \/ m.uip > RTC_UIP_TIMEOUT THEN RTC_UIP_TIMEOUT + 1
    ELSE m.uip + 1

\* The number of reads of Register A the loop of rtc_wait_uip() makes: the
\* k-th read ends the loop when it shows UIP clear or when --timeout, which
\* starts at 10000, reaches 0.
uip_reads(m) ==
    IF m.uip = UIP_STUCK \/ m.uip >= RTC_UIP_TIMEOUT THEN RTC_UIP_TIMEOUT
    ELSE m.uip + 1

rtc_wait_uip(m) ==
    CHOOSE r \in
        { [cmos |-> mm.cmos,
           uip  |-> IF mm.uip = UIP_STUCK THEN UIP_STUCK
                    ELSE IF mm.uip > n THEN mm.uip - n
                    ELSE 0,
           log  |-> mm.log \o [k \in 1..n |->
                                 IF mm.uip = UIP_STUCK \/ k <= mm.uip
                                 THEN busy ELSE idle]]
          : mm \in {m}, n \in {uip_reads(m)},
            busy \in {<<"r", RTC_REG_A, mc146818_reg_a([m EXCEPT !.uip = 1], 0)>>},
            idle \in {<<"r", RTC_REG_A, mc146818_reg_a([m EXCEPT !.uip = 0], 0)>>} }
        : TRUE

----------------------------------------------------------------------------
(* Checksum over cells 0x10..0x2D *)

\* sum += x on an unsigned short, for each x of the sequence xs in turn
sum_u16(xs) ==
    LET f[i \in 0..Len(xs)] == IF i = 0 THEN 0 ELSE U16(f[i - 1] + xs[i])
    IN f[Len(xs)]

\* The loop of cmos_calc_checksum() over the cells first..last.  (The
\* singleton sets here and in the two operators above name a value that is
\* computed once.)
calc_range(m, first, last) ==
    CHOOSE c \in
        { [val |-> sum_u16(v), m |-> r.m]
          : <<r, v>> \in
              { <<r0, r0.vals>>
                : r0 \in {cmos_read_seq(m, [k \in 1..(last - first + 1) |->
                                                first + k - 1])} } }
        : TRUE

cmos_calc_checksum_short(m) == calc_range(m, CKSUM_FIRST, CKSUM_LAST - 1)

cmos_calc_checksum(m) == calc_range(m, CKSUM_FIRST, CKSUM_LAST)

cmos_verify_checksum(m) ==
    LET c  == cmos_calc_checksum(m)
        hi == cmos_read(c.m, CMOS_CHECKSUM_HI)
        lo == cmos_read(hi.m, CMOS_CHECKSUM_LO)
        stored == OR(U16(hi.val * 256), lo.val)
    IN [val |-> (c.val = stored), m |-> lo.m]

cmos_update_checksum_swapped(m) ==
    LET c  == cmos_calc_checksum(m)
        m1 == cmos_write(c.m, CMOS_CHECKSUM_HI, AND(c.val, 255))
    IN cmos_write(m1, CMOS_CHECKSUM_LO, AND(c.val \div 256, 255))

cmos_update_checksum(m) ==
    LET c  == cmos_calc_checksum(m)
        m1 == cmos_write(c.m, CMOS_CHECKSUM_HI, AND(c.val \div 256, 255))
    IN cmos_write(m1, CMOS_CHECKSUM_LO, AND(c.val, 255))

\* main(), command "checksum": verify, and recompute only on a mismatch
checksum_cmd(m) ==
    LET v == cmos_verify_checksum(m)
    IN IF v.val THEN [m |-> v.m, rc |-> 0, upd |-> FALSE]
       ELSE [m |-> cmos_update_checksum(v.m), rc |-> 0, upd |-> TRUE]

----------------------------------------------------------------------------
(* Alarm *)

\* How the model writes the "**" that show_alarm prints for a wildcard field
WILD == 0 - 1

\* An alarm cell as show_alarm prints it: WILD ("**") for a wildcard, else
\* the decoded number.
alarm_field(m, raw) ==
    IF raw >= ALARM_WILDCARD THEN [val |-> WILD, m |-> m]
    ELSE rtc_to_bin(m, raw)

show_alarm(m0) ==
    LET m1   == rtc_wait_uip(m0)
        sec  == cmos_read(m1, RTC_ALARM_SEC)
        min  == cmos_read(sec.m, RTC_ALARM_MIN)
        hrs  == cmos_read(min.m, RTC_ALARM_HRS)
        regb == cmos_read(hrs.m, RTC_REG_B)
        allw == sec.val >= ALARM_WILDCARD /\ min.val >= ALARM_WILDCARD
                /\ hrs.val >= ALARM_WILDCARD
        h    == alarm_field(regb.m, hrs.val)
        mi   == alarm_field(h.m, min.val)
        s    == alarm_field(mi.m, sec.val)
    IN IF allw
       THEN [m |-> regb.m, rc |-> 0,
             out |-> [hrs |-> WILD, min |-> WILD, sec |-> WILD,
                      aie |-> AND(regb.val, RTC_B_AIE) # 0]]
       ELSE [m |-> s.m, rc |-> 0,
             out |-> [hrs |-> h.val, min |-> mi.val, sec |-> s.val,
                      aie |-> AND(regb.val, RTC_B_AIE) # 0]]

alarm_encode_le0(m, v) ==
    IF v <= 0 THEN [val |-> ALARM_WILDCARD, m |-> m] ELSE bin_to_rtc(m, v)

\* The value set_alarm writes for one field
alarm_encode(m, v) ==
    IF v < 0 THEN [val |-> ALARM_WILDCARD, m |-> m] ELSE bin_to_rtc(m, v)

set_alarm(m0, parsed, hrs, min, sec) ==
    IF ~parsed THEN [m |-> m0, rc |-> 1]
    ELSE LET regb == cmos_read(m0, RTC_REG_B)
             m1   == cmos_write(regb.m, RTC_REG_B, OR(regb.val, RTC_B_SET))
             s    == alarm_encode(m1, sec)
             m2   == cmos_write(s.m, RTC_ALARM_SEC, s.val)
             mi   == alarm_encode(m2, min)
             m3   == cmos_write(mi.m, RTC_ALARM_MIN, mi.val)
             h    == alarm_encode(m3, hrs)
             m4   == cmos_write(h.m, RTC_ALARM_HRS, h.val)
             m5   == cmos_write(m4, RTC_REG_B, ANDNOT(regb.val, RTC_B_SET))
         IN [m |-> m5, rc |-> 0]

alarm_enable_resuming(m0, enable) ==
    LET regb == cmos_read(m0, RTC_REG_B)
        v    == IF enable # 0 THEN OR(regb.val, RTC_B_AIE)
                ELSE ANDNOT(regb.val, RTC_B_AIE)
    IN [m |-> cmos_write(regb.m, RTC_REG_B, ANDNOT(v, RTC_B_SET)), rc |-> 0]

alarm_enable(m0, enable) ==
    LET regb == cmos_read(m0, RTC_REG_B)
        v    == IF enable # 0 THEN OR(regb.val, RTC_B_AIE)
                ELSE ANDNOT(regb.val, RTC_B_AIE)
    IN [m |-> cmos_write(regb.m, RTC_REG_B, v), rc |-> 0]

----------------------------------------------------------------------------
(* Drive types, equipment byte, base memory, diagnostics *)

set_floppy_loose(m0, drv, type) ==
    IF type < 0 \/ type > 5 THEN [m |-> m0, rc |-> 1]
    ELSE LET floppy == cmos_read(m0, CMOS_FLOPPY)
         IN IF drv \in {"A", "a", "0"}
            THEN [m |-> cmos_update_checksum(
                          cmos_write(floppy.m, CMOS_FLOPPY,
                                     OR(AND(floppy.val, 15), type * 16))),
                  rc |-> 0]
            ELSE IF drv \in {"B", "b", "1"}
            THEN [m |-> cmos_update_checksum(
                          cmos_write(floppy.m, CMOS_FLOPPY,
                                     OR(AND(floppy.val, 240), type))),
                  rc |-> 0]
            ELSE [m |-> floppy.m, rc |-> 1]

set_floppy(m0, drv, type) ==
    IF type < 0 \/ type > 4 THEN [m |-> m0, rc |-> 1]
    ELSE LET floppy == cmos_read(m0, CMOS_FLOPPY)
         IN IF drv \in {"A", "a", "0"}
            THEN [m |-> cmos_update_checksum(
                          cmos_write(floppy.m, CMOS_FLOPPY,
                                     OR(AND(floppy.val, 15), type * 16))),
                  rc |-> 0]
            ELSE IF drv \in {"B", "b", "1"}
            THEN [m |-> cmos_update_checksum(
                          cmos_write(floppy.m, CMOS_FLOPPY,
                                     OR(AND(floppy.val, 240), type))),
                  rc |-> 0]
            ELSE [m |-> floppy.m, rc |-> 1]

set_harddisk(m0, drv, type) ==
    IF type < 0 \/ type > 15 THEN [m |-> m0, rc |-> 1]
    ELSE LET diskbyte == cmos_read(m0, CMOS_DISK)
         IN IF drv \in {"0", "C", "c"}
            THEN [m |-> cmos_update_checksum(
                          cmos_write(diskbyte.m, CMOS_DISK,
                                     OR(AND(diskbyte.val, 15), type * 16))),
                  rc |-> 0]
            ELSE IF drv \in {"1", "D", "d"}
            THEN [m |-> cmos_update_checksum(
                          cmos_write(diskbyte.m, CMOS_DISK,
                                     OR(AND(diskbyte.val, 240), type))),
                  rc |-> 0]
            ELSE [m |-> diskbyte.m, rc |-> 1]

set_equipment_count_or(m0, field, val) ==
    LET equip == cmos_read(m0, CMOS_EQUIP)
        store(v) == [m |-> cmos_update_checksum(
                             cmos_write(equip.m, CMOS_EQUIP, v)),
                     rc |-> 0]
        fail == [m |-> equip.m, rc |-> 1]
    IN IF field \in {"fpu", "coprocessor", "8087"}
       THEN store(IF val # 0 THEN OR(equip.val, 2) ELSE ANDNOT(equip.val, 2))
       ELSE IF field = "video"
       THEN IF val < 0 \/ val > 3 THEN fail
            ELSE store(OR(ANDNOT(equip.val, 48), AND(val, 3) * 16))
       ELSE IF field = "floppy-count"
       THEN IF val < 0 \/ val > 4 THEN fail
            ELSE IF val = 0
            THEN store(ANDNOT(ANDNOT(equip.val, 1), 192))
            ELSE store(OR(OR(equip.val, 1), AND(val - 1, 3) * 64))
       ELSE fail

set_equipment(m0, field, val) ==
    LET equip == cmos_read(m0, CMOS_EQUIP)
        store(v) == [m |-> cmos_update_checksum(
                             cmos_write(equip.m, CMOS_EQUIP, v)),
                     rc |-> 0]
        fail == [m |-> equip.m, rc |-> 1]
    IN IF field \in {"fpu", "coprocessor", "8087"}
       THEN store(IF val # 0 THEN OR(equip.val, 2) ELSE ANDNOT(equip.val, 2))
       ELSE IF field = "video"
       THEN IF val < 0 \/ val > 3 THEN fail
            ELSE store(OR(ANDNOT(equip.val, 48), AND(val, 3) * 16))
       ELSE IF field = "floppy-count"
       THEN IF val < 0 \/ val > 4 THEN fail
            ELSE IF val = 0
            THEN store(ANDNOT(ANDNOT(equip.val, 1), 192))
            ELSE store(OR(ANDNOT(OR(equip.val, 1), 192),
                          AND(val - 1, 3) * 64))
       ELSE fail

set_basemem_no_update(m0, kb) ==
    IF kb < 64 \/ kb > 640 THEN [m |-> m0, rc |-> 1]
    ELSE LET m1 == cmos_write(m0, CMOS_BASEMEM_LO, AND(kb, 255))
             m2 == cmos_write(m1, CMOS_BASEMEM_HI, AND(kb \div 256, 255))
         IN [m |-> m2, rc |-> 0]

set_basemem(m0, kb) ==
    IF kb < 64 \/ kb > 640 THEN [m |-> m0, rc |-> 1]
    ELSE LET m1 == cmos_write(m0, CMOS_BASEMEM_LO, AND(kb, 255))
             m2 == cmos_write(m1, CMOS_BASEMEM_HI, AND(kb \div 256, 255))
         IN [m |-> cmos_update_checksum(m2), rc |-> 0]

clear_diagnostics(m0) == [m |-> cmos_write(m0, CMOS_DIAG, 0), rc |-> 0]

----------------------------------------------------------------------------
(* Raw write and fill *)

raw_write(m0, addrl, vall) ==
    LET addr == U16(addrl)
        val  == U16(vall)
    IN IF addr >= CMOS_SIZE THEN [m |-> m0, rc |-> 1]
       ELSE IF val > 255 THEN [m |-> m0, rc |-> 1]
       ELSE LET m1 == cmos_write(m0, addr, val)
            IN IF addr >= CKSUM_FIRST /\ addr <= CKSUM_LAST
               THEN [m |-> cmos_update_checksum(m1), rc |-> 0]
               ELSE [m |-> m1, rc |-> 0]

\* The addresses start..end in ascending order without Registers C and D
\* The loop of fill_cmos(): every cell of start..end but Registers C and D
fill_loop_short(m, start, end, val) ==
    cmos_write_seq(m,
        SelectSeq([k \in 1..(end - start) |-> <<start + k - 1, val>>],
                  LAMBDA w : w[1] # RTC_REG_C /\ w[1] # RTC_REG_D))

fill_loop(m, start, end, val) ==
    cmos_write_seq(m,
        SelectSeq([k \in 1..(end - start + 1) |-> <<start + k - 1, val>>],
                  LAMBDA w : w[1] # RTC_REG_C /\ w[1] # RTC_REG_D))

fill_cmos(m0, startl, endl, vall) ==
    LET start == U16(startl)
        end   == U16(endl)
        val   == U16(vall)
    IN IF start >= CMOS_SIZE \/ end >= CMOS_SIZE \/ start > end
       THEN [m |-> m0, rc |-> 1]
       ELSE IF val > 255 THEN [m |-> m0, rc |-> 1]
       ELSE [m |-> cmos_update_checksum(fill_loop(m0, start, end, val)),
             rc |-> 0]

----------------------------------------------------------------------------
(* Time, date, day of week *)

set_time_keep_set(m0, parsed, hrs, min, sec) ==
    IF ~parsed THEN [m |-> m0, rc |-> 1]
    ELSE IF hrs < 0 \/ hrs > 23 \/ min < 0 \/ min > 59 \/ sec < 0 \/ sec > 59
    THEN [m |-> m0, rc |-> 1]
    ELSE LET regb == cmos_read(m0, RTC_REG_B)
             m1   == cmos_write(regb.m, RTC_REG_B, OR(regb.val, RTC_B_SET))
             s    == bin_to_rtc(m1, sec)
             m2   == cmos_write(s.m, RTC_SECONDS, s.val)
             mi   == bin_to_rtc(m2, min)
             m3   == cmos_write(mi.m, RTC_MINUTES, mi.val)
             h    == bin_to_rtc(m3, hrs)
             m4   == cmos_write(h.m, RTC_HOURS, h.val)
             m5   == cmos_write(m4, RTC_REG_B, regb.val)
         IN [m |-> m5, rc |-> 0]

set_time(m0, parsed, hrs, min, sec) ==
    IF ~parsed THEN [m |-> m0, rc |-> 1]
    ELSE IF hrs < 0 \/ hrs > 23 \/ min < 0 \/ min > 59 \/ sec < 0 \/ sec > 59
    THEN [m |-> m0, rc |-> 1]
    ELSE LET regb == cmos_read(m0, RTC_REG_B)
             m1   == cmos_write(regb.m, RTC_REG_B, OR(regb.val, RTC_B_SET))
             s    == bin_to_rtc(m1, sec)
             m2   == cmos_write(s.m, RTC_SECONDS, s.val)
             mi   == bin_to_rtc(m2, min)
             m3   == cmos_write(mi.m, RTC_MINUTES, mi.val)
             h    == bin_to_rtc(m3, hrs)
             m4   == cmos_write(h.m, RTC_HOURS, h.val)
             m5   == cmos_write(m4, RTC_REG_B, ANDNOT(regb.val, RTC_B_SET))
         IN [m |-> m5, rc |-> 0]

set_date_late_check(m0, parsed, day, mon, year) ==
    IF ~parsed THEN [m |-> m0, rc |-> 1]
    ELSE LET regb == cmos_read(m0, RTC_REG_B)
         IN IF day < 1 \/ day > 31 \/ mon < 1 \/ mon > 12
               \/ year < 1980 \/ year > 2099
            THEN [m |-> regb.m, rc |-> 1]
            ELSE LET
             cen  == U8(year \div 100)
             yr   == U8(year % 100)
             m1   == cmos_write(regb.m, RTC_REG_B, OR(regb.val, RTC_B_SET))
             d    == bin_to_rtc(m1, day)
             m2   == cmos_write(d.m, RTC_DAY_OF_MONTH, d.val)
             mo   == bin_to_rtc(m2, mon)
             m3   == cmos_write(mo.m, RTC_MONTH, mo.val)
             y    == bin_to_rtc(m3, yr)
             m4   == cmos_write(y.m, RTC_YEAR, y.val)
             c    == bin_to_rtc(m4, cen)
             m5   == cmos_write(c.m, CMOS_CENTURY, c.val)
             m6   == cmos_write(m5, RTC_REG_B, ANDNOT(regb.val, RTC_B_SET))
            IN [m |-> m6, rc |-> 0]

set_date(m0, parsed, day, mon, year) ==
    IF ~parsed THEN [m |-> m0, rc |-> 1]
    ELSE IF day < 1 \/ day > 31 \/ mon < 1 \/ mon > 12
            \/ year < 1980 \/ year > 2099
    THEN [m |-> m0, rc |-> 1]
    ELSE LET cen  == U8(year \div 100)
             yr   == U8(year % 100)
             regb == cmos_read(m0, RTC_REG_B)
             m1   == cmos_write(regb.m, RTC_REG_B, OR(regb.val, RTC_B_SET))
             d    == bin_to_rtc(m1, day)
             m2   == cmos_write(d.m, RTC_DAY_OF_MONTH, d.val)
             mo   == bin_to_rtc(m2, mon)
             m3   == cmos_write(mo.m, RTC_MONTH, mo.val)
             y    == bin_to_rtc(m3, yr)
             m4   == cmos_write(y.m, RTC_YEAR, y.val)
             c    == bin_to_rtc(m4, cen)
             m5   == cmos_write(c.m, CMOS_CENTURY, c.val)
             m6   == cmos_write(m5, RTC_REG_B, ANDNOT(regb.val, RTC_B_SET))
         IN [m |-> m6, rc |-> 0]

set_dow_unbracketed(m0, dow) ==
    IF dow < 1 \/ dow > 7 THEN [m |-> m0, rc |-> 1]
    ELSE LET regb == cmos_read(m0, RTC_REG_B)
             d    == bin_to_rtc(regb.m, dow)
             m2   == cmos_write(d.m, RTC_DAY_OF_WEEK, d.val)
             m3   == cmos_write(m2, RTC_REG_B, ANDNOT(regb.val, RTC_B_SET))
         IN [m |-> m3, rc |-> 0]

set_dow(m0, dow) ==
    IF dow < 1 \/ dow > 7 THEN [m |-> m0, rc |-> 1]
    ELSE LET regb == cmos_read(m0, RTC_REG_B)
             m1   == cmos_write(regb.m, RTC_REG_B, OR(regb.val, RTC_B_SET))
             d    == bin_to_rtc(m1, dow)
             m2   == cmos_write(d.m, RTC_DAY_OF_WEEK, d.val)
             m3   == cmos_write(m2, RTC_REG_B, ANDNOT(regb.val, RTC_B_SET))
         IN [m |-> m3, rc |-> 0]

----------------------------------------------------------------------------
(* RTC mode *)

\* The Register B flag a set-rtc mode name stands for (0: none)
rtc_mode_bit(mode) ==
    CASE mode = "24h" -> RTC_B_24H
      [] mode = "sqw" -> RTC_B_SQWE
      [] mode = "dse" -> RTC_B_DSE
      [] mode = "pie" -> RTC_B_PIE
      [] mode = "uie" -> RTC_B_UIE
      [] OTHER -> 0

set_rtc_mode(m0, mode, val) ==
    LET regb == cmos_read(m0, RTC_REG_B)
    IN IF mode \in {"24h", "sqw", "dse", "pie", "uie"}
       THEN [m |-> cmos_write(regb.m, RTC_REG_B,
                              IF val # 0 THEN OR(regb.val, rtc_mode_bit(mode))
                              ELSE ANDNOT(regb.val, rtc_mode_bit(mode))),
             rc |-> 0]
       ELSE IF mode = "bcd"
       THEN [m |-> cmos_write(regb.m, RTC_REG_B,
                              IF val # 0 THEN ANDNOT(regb.val, RTC_B_DM)
                              ELSE OR(regb.val, RTC_B_DM)),
             rc |-> 0]
       ELSE IF mode = "rate"
       THEN IF val < 0 \/ val > 15 THEN [m |-> regb.m, rc |-> 1]
            ELSE LET rega == cmos_read(regb.m, RTC_REG_A)
                 IN [m |-> cmos_write(rega.m, RTC_REG_A,
                                      OR(ANDNOT(rega.val, RTC_A_RS_MASK),
                                         AND(val, RTC_A_RS_MASK))),
                     rc |-> 0]
       ELSE [m |-> regb.m, rc |-> 1]

----------------------------------------------------------------------------
(* Lookup tables of the reports *)

\* t[i] in C, the element of a table at an index counted from 0.  A read
\* outside the table is undefined: it is shown as the empty tuple, which
\* is no element of any table.
index(t, i) == IF i \in 0..(Len(t) - 1) THEN t[i + 1] ELSE <<>>

day_names_seven ==
    << "???", "Sunday", "Monday", "Tuesday",
       "Wednesday", "Thursday", "Friday" >>

day_names ==
    << "???", "Sunday", "Monday", "Tuesday",
       "Wednesday", "Thursday", "Friday", "Saturday" >>

month_names ==
    << "???", "January", "February", "March", "April",
       "May", "June", "July", "August",
       "September", "October", "November", "December" >>

rate_freq ==
    << "None", "256 Hz", "128 Hz", "8192 Hz", "4096 Hz", "2048 Hz",
       "1024 Hz", "512 Hz", "256 Hz", "128 Hz", "64 Hz", "32 Hz",
       "16 Hz", "8 Hz", "4 Hz", "2 Hz" >>

divider_name ==
    << "4.194304 MHz (time base)", "1.048576 MHz", "32.768 kHz",
       "Test: any", "Test: any", "Reset / divider held",
       "Reset / divider held", "Reset / divider held" >>

\* cyls, heads, precomp, landing, sectors; precomp -1 in an unsigned short
hd_types ==
    << <<306, 4, 128, 305, 17>>, <<615, 4, 300, 615, 17>>,
       <<615, 6, 300, 615, 17>>, <<940, 8, 512, 940, 17>>,
       <<940, 6, 512, 940, 17>>, <<615, 4, 65535, 615, 17>>,
       <<462, 8, 256, 511, 17>>, <<733, 5, 65535, 733, 17>>,
       <<900, 15, 65535, 901, 17>>, <<820, 3, 65535, 820, 17>>,
       <<855, 5, 65535, 855, 17>>, <<855, 7, 65535, 855, 17>>,
       <<306, 8, 128, 319, 17>>, <<733, 7, 65535, 733, 17>>,
       <<0, 0, 0, 0, 0>> >>

language_name(code) ==
    CASE AND(code, 7) = 0 -> "Diagnostic mode"
      [] AND(code, 7) = 1 -> "Italian"
      [] AND(code, 7) = 2 -> "Swedish"
      [] AND(code, 7) = 3 -> "Danish"
      [] AND(code, 7) = 4 -> "Spanish"
      [] AND(code, 7) = 5 -> "French"
      [] AND(code, 7) = 6 -> "German"
      [] AND(code, 7) = 7 -> "English"
      [] OTHER -> "Unknown"

display_type_name(code) ==
    CASE AND(code, 3) = 0 -> "EGA (built-in Paradise PEGA)"
      [] AND(code, 3) = 1 -> "Unknown (reserved)"
      [] AND(code, 3) = 2 -> "CGA"
      [] AND(code, 3) = 3 -> "MDA/Hercules"
      [] OTHER -> "Unknown"

\* What show_harddisk prints for one drive: kind of line, and for a type
\* of the table the index used and the entry found
show_drive(type, ext) ==
    IF type = 0 THEN [kind |-> "not installed", at |-> 0, entry |-> <<>>]
    ELSE IF type = 15 THEN [kind |-> "extended", at |-> ext, entry |-> <<>>]
    ELSE IF type <= 14
    THEN [kind |-> "type", at |-> type - 1,
          entry |-> index(hd_types, type - 1)]
    ELSE [kind |-> "unknown", at |-> type, entry |-> <<>>]

----------------------------------------------------------------------------
(* Clock reports *)

\* rtc_to_bin() called for each value of the sequence raws in turn: every
\* call reads Register B for the data mode.
rtc_to_bin_seq(m, raws) ==
    CHOOSE d \in
        { [vals |-> [i \in 1..Len(raws) |->
                       IF AND(r.vals[i], RTC_B_DM) = 0
                       THEN bcd_to_bin(U8(raws[i]))
                       ELSE U8(raws[i])],
           m |-> r.m]
          : r \in {cmos_read_seq(m, [i \in 1..Len(raws) |-> RTC_REG_B])} }
        : TRUE

\* The byte show_time and watch_time hand to rtc_to_bin for the hour
hours_arg(hrs, regb) ==
    IF AND(regb, RTC_B_24H) # 0 THEN hrs ELSE AND(hrs, 127)

hours_fold_always_add(h, hrs, regb) ==
    IF AND(regb, RTC_B_24H) # 0 THEN h
    ELSE IF AND(hrs, 128) # 0 THEN U8(h + 12)
    ELSE IF h = 12 THEN 0
    ELSE h

\* The hour they print: h is the decoded byte, hrs the raw one
hours_fold(h, hrs, regb) ==
    IF AND(regb, RTC_B_24H) # 0 THEN h
    ELSE IF AND(hrs, 128) # 0 THEN (IF h < 12 THEN U8(h + 12) ELSE h)
    ELSE IF h = 12 THEN 0
    ELSE h

show_time(m0) ==
    CHOOSE res \in
        { [m |-> d.m, rc |-> 0,
           out |-> [dow |-> IF d.vals[7] > 7 THEN 0 ELSE d.vals[7],
                    day |-> index(day_names,
                                  IF d.vals[7] > 7 THEN 0 ELSE d.vals[7]),
                    month |-> index(month_names,
                                    IF d.vals[4] > 12 THEN 0 ELSE d.vals[4]),
                    dom |-> d.vals[3],
                    mon |-> IF d.vals[4] > 12 THEN 0 ELSE d.vals[4],
                    cen |-> d.vals[6], yr |-> d.vals[5],
                    hrs |-> hours_fold(d.vals[8], raw.vals[3], raw.vals[9]),
                    min |-> d.vals[2], sec |-> d.vals[1],
                    h24 |-> AND(raw.vals[9], RTC_B_24H) # 0,
                    binary |-> AND(raw.vals[9], RTC_B_DM) # 0]]
          : <<raw, d>> \in
              { <<r, rtc_to_bin_seq(r.m,
                       <<r.vals[1], r.vals[2], r.vals[5], r.vals[6],
                         r.vals[7], r.vals[8], r.vals[4],
                         hours_arg(r.vals[3], r.vals[9])>>)>>
                : r \in {cmos_read_seq(rtc_wait_uip(m0),
                             <<RTC_SECONDS, RTC_MINUTES, RTC_HOURS,
                               RTC_DAY_OF_WEEK, RTC_DAY_OF_MONTH, RTC_MONTH,
                               RTC_YEAR, CMOS_CENTURY, RTC_REG_B>>)} } }
        : TRUE

\* show_time with the rest of the machine in view: after k of its eight
\* calls of rtc_to_bin an interrupt handler stores regb in Register B
show_time_interrupted(m0, k, regb) ==
    CHOOSE res \in
        { [m |-> d2.m, rc |-> 0,
           out |-> [dow |-> IF d[7] > 7 THEN 0 ELSE d[7],
                    day |-> index(day_names, IF d[7] > 7 THEN 0 ELSE d[7]),
                    month |-> index(month_names,
                                    IF d[4] > 12 THEN 0 ELSE d[4]),
                    dom |-> d[3],
                    mon |-> IF d[4] > 12 THEN 0 ELSE d[4],
                    cen |-> d[6], yr |-> d[5],
                    hrs |-> hours_fold(d[8], raw.vals[3], raw.vals[9]),
                    min |-> d[2], sec |-> d[1],
                    h24 |-> AND(raw.vals[9], RTC_B_24H) # 0,
                    binary |-> AND(raw.vals[9], RTC_B_DM) # 0]]
          : <<raw, d2, d>> \in
              { <<r, y, x.vals \o y.vals>>
                : <<r, x, y>> \in
                  { <<r, x, rtc_to_bin_seq(
                               [x.m EXCEPT !.cmos[RTC_REG_B] = regb],
                               SubSeq(f, k + 1, Len(f)))>>
                    : <<r, f, x>> \in
                      { <<r, f, rtc_to_bin_seq(r.m, SubSeq(f, 1, k))>>
                        : <<r, f>> \in
                          { <<r, <<r.vals[1], r.vals[2], r.vals[5], r.vals[6],
                                   r.vals[7], r.vals[8], r.vals[4],
                                   hours_arg(r.vals[3], r.vals[9])>> >>
                            : r \in {cmos_read_seq(rtc_wait_uip(m0),
                                <<RTC_SECONDS, RTC_MINUTES, RTC_HOURS,
                                  RTC_DAY_OF_WEEK, RTC_DAY_OF_MONTH,
                                  RTC_MONTH, RTC_YEAR, CMOS_CENTURY,
                                  RTC_REG_B>>)} } } } } }
        : TRUE

\* One frame of watch_time: the reads and the line it prints
watch_frame(m0) ==
    CHOOSE res \in
        { [m |-> d.m, rc |-> 0,
           out |-> [hrs |-> hours_fold(d.vals[3], raw.vals[3], raw.vals[4]),
                    min |-> d.vals[2], sec |-> d.vals[1]]]
          : <<raw, d>> \in
              { <<r, rtc_to_bin_seq(r.m,
                       <<r.vals[1], r.vals[2],
                         hours_arg(r.vals[3], r.vals[4])>>)>>
                : r \in {cmos_read_seq(rtc_wait_uip(m0),
                             <<RTC_SECONDS, RTC_MINUTES, RTC_HOURS,
                               RTC_REG_B>>)} } }
        : TRUE

----------------------------------------------------------------------------
(* Dump, compare and save.  A file is [exists, bytes]: whether fopen for    *)
(* reading finds it, and its contents.                                     *)

AllCells == [i \in 1..CMOS_SIZE |-> i - 1]

dump_cmos_repairing(m0) ==
    CHOOSE res \in
        { [m |-> IF v.val THEN v.m ELSE cmos_update_checksum(v.m), rc |-> 0,
           out |-> [data |-> r.vals, valid |-> v.val]]
          : <<r, v>> \in
              { <<r0, cmos_verify_checksum(r0.m)>>
                : r0 \in {cmos_read_seq(rtc_wait_uip(m0), AllCells)} } }
        : TRUE

dump_cmos(m0) ==
    CHOOSE res \in
        { [m |-> v.m, rc |-> 0, out |-> [data |-> r.vals, valid |-> v.val]]
          : <<r, v>> \in
              { <<r0, cmos_verify_checksum(r0.m)>>
                : r0 \in {cmos_read_seq(rtc_wait_uip(m0), AllCells)} } }
        : TRUE

compare_cmos(m0, f) ==
    IF ~f.exists THEN [m |-> m0, rc |-> 1, out |-> <<>>]
    ELSE IF Len(f.bytes) < CMOS_SIZE THEN [m |-> m0, rc |-> 1, out |-> <<>>]
    ELSE CHOOSE res \in
        { [m |-> r.m, rc |-> 0,
           out |-> [diffs |-> {a \in Addr : r.vals[a + 1] # f.bytes[a + 1]}]]
          : r \in {cmos_read_seq(rtc_wait_uip(m0), AllCells)} }
        : TRUE

\* io: how fopen and fwrite go; written: the bytes fwrite got out before it
\* failed.  fopen with "wb" empties the file before anything is written.
save_cmos(m0, f, io, written) ==
    CHOOSE res \in
        { [m |-> r.m,
           rc |-> IF io = "ok" THEN 0 ELSE 1,
           out |-> [data |-> r.vals],
           file |-> CASE io = "ok" -> [exists |-> TRUE, bytes |-> r.vals]
                      [] io = "open fails" -> f
                      [] OTHER -> [exists |-> TRUE,
                                   bytes |-> SubSeq(r.vals, 1, written)]]
          : r \in {cmos_read_seq(rtc_wait_uip(m0), AllCells)} }
        : TRUE

----------------------------------------------------------------------------
(* Configuration reports *)

show_rtc_status(m0) ==
    CHOOSE res \in
        { [m |-> r.m, rc |-> 0,
           out |-> [rega |-> r.vals[1], regb |-> r.vals[2],
                    regc |-> r.vals[3], regd |-> r.vals[4],
                    dv |-> AND(r.vals[1], RTC_A_DV_MASK)
                               \div 2^RTC_A_DV_SHIFT,
                    divider |-> index(divider_name,
                                      AND(r.vals[1], RTC_A_DV_MASK)
                                          \div 2^RTC_A_DV_SHIFT),
                    rs |-> AND(r.vals[1], RTC_A_RS_MASK),
                    rate |-> index(rate_freq,
                                   AND(r.vals[1], RTC_A_RS_MASK))]]
          : r \in {cmos_read_seq(m0, <<RTC_REG_A, RTC_REG_B, RTC_REG_C,
                                       RTC_REG_D>>)} }
        : TRUE

show_floppy(m0) ==
    CHOOSE res \in
        { [m |-> r.m, rc |-> 0,
           out |-> [a |-> r.vals[1] \div 16, b |-> r.vals[1] % 16,
                    ndrives |-> IF r.vals[2] % 2 = 1
                                THEN (r.vals[2] \div 64) + 1 ELSE 0]]
          : r \in {cmos_read_seq(m0, <<CMOS_FLOPPY, CMOS_EQUIP>>)} }
        : TRUE

show_harddisk(m0) ==
    CHOOSE res \in
        { [m |-> r.m, rc |-> 0,
           out |-> [type0 |-> r.vals[1] \div 16, type1 |-> r.vals[1] % 16,
                    ext0 |-> r.vals[2], ext1 |-> r.vals[3],
                    drive0 |-> show_drive(r.vals[1] \div 16, r.vals[2]),
                    drive1 |-> show_drive(r.vals[1] % 16, r.vals[3])]]
          : r \in {cmos_read_seq(m0, <<CMOS_DISK, CMOS_DISK0_EXT,
                                       CMOS_DISK1_EXT>>)} }
        : TRUE

show_equipment(m0) ==
    CHOOSE res \in
        { [m |-> r.m, rc |-> 0,
           out |-> [floppy |-> r.vals[1] % 2 = 1,
                    fpu |-> (r.vals[1] \div 2) % 2 = 1,
                    video |-> (r.vals[1] \div 16) % 4,
                    nfloppy |-> IF r.vals[1] % 2 = 1
                                THEN (r.vals[1] \div 64) + 1 ELSE 0]]
          : r \in {cmos_read_seq(m0, <<CMOS_EQUIP>>)} }
        : TRUE

show_memory(m0) ==
    CHOOSE res \in
        { [m |-> r.m, rc |-> 0,
           out |-> [basemem |-> r.vals[1] + 256 * r.vals[2],
                    extmem |-> r.vals[3] + 256 * r.vals[4]]]
          : r \in {cmos_read_seq(m0, <<CMOS_BASEMEM_LO, CMOS_BASEMEM_HI,
                                       CMOS_EXTMEM_LO, CMOS_EXTMEM_HI>>)} }
        : TRUE

show_diagnostics(m0) ==
    CHOOSE res \in
        { [m |-> r.m, rc |-> 0,
           out |-> [diag |-> r.vals[1], shut |-> r.vals[2]]]
          : r \in {cmos_read_seq(m0, <<CMOS_DIAG, CMOS_SHUTDOWN>>)} }
        : TRUE

show_battery(m0) ==
    CHOOSE res \in
        { [m |-> r.m, rc |-> 0,
           out |-> [vrt |-> AND(r.vals[1], RTC_D_VRT) # 0,
                    lost |-> r.vals[2] >= 128]]
          : r \in {cmos_read_seq(m0, <<RTC_REG_D, CMOS_DIAG>>)} }
        : TRUE

\* addr: the number strtol returns.  printf's two cmos_read(addr) arguments
\* are evaluated in either order: hexfirst tells which read fills the %02X.
raw_read(m0, addr, hexfirst) ==
    IF U16(addr) >= CMOS_SIZE THEN [m |-> m0, rc |-> 1, out |-> <<>>]
    ELSE CHOOSE res \in
        { [m |-> r.m, rc |-> 0,
           out |-> [hex |-> r.vals[IF hexfirst THEN 1 ELSE 2],
                    dec |-> r.vals[IF hexfirst THEN 2 ELSE 1]]]
          : r \in {cmos_read_seq(m0, <<U16(addr), U16(addr)>>)} }
        : TRUE

----------------------------------------------------------------------------
(* Load and factory reset *)

load_loop_shifted(m, data) ==
    cmos_write_seq(m,
        SelectSeq([k \in 1..CMOS_SIZE |-> <<k - 1, data[k % CMOS_SIZE]>>],
                  LAMBDA w : w[1] # RTC_REG_C /\ w[1] # RTC_REG_D))

load_loop(m, data) ==
    cmos_write_seq(m,
        SelectSeq([k \in 1..CMOS_SIZE |-> <<k - 1, data[k - 1]>>],
                  LAMBDA w : w[1] # RTC_REG_C /\ w[1] # RTC_REG_D))

load_cmos_then_update(m0, opened, fsize, data) ==
    IF ~opened THEN [m |-> m0, rc |-> 1]
    ELSE IF fsize # CMOS_SIZE /\ fsize # 128 THEN [m |-> m0, rc |-> 1]
    ELSE LET regb == cmos_read(m0, RTC_REG_B)
             m1   == cmos_write(regb.m, RTC_REG_B, OR(regb.val, RTC_B_SET))
             m2   == load_loop(m1, data)
             m3   == cmos_write(m2, RTC_REG_B,
                                ANDNOT(data[RTC_REG_B], RTC_B_SET))
         IN [m |-> cmos_update_checksum(m3), rc |-> 0]

load_cmos_restore_saved_regb(m0, opened, fsize, data) ==
    IF ~opened THEN [m |-> m0, rc |-> 1]
    ELSE IF fsize # CMOS_SIZE /\ fsize # 128 THEN [m |-> m0, rc |-> 1]
    ELSE LET regb == cmos_read(m0, RTC_REG_B)
             m1   == cmos_write(regb.m, RTC_REG_B, OR(regb.val, RTC_B_SET))
             m2   == load_loop(m1, data)
             m3   == cmos_write(m2, RTC_REG_B, ANDNOT(regb.val, RTC_B_SET))
         IN [m |-> m3, rc |-> 0]

load_cmos_any_size(m0, opened, fsize, data) ==
    IF ~opened THEN [m |-> m0, rc |-> 1]
    ELSE IF fsize < CMOS_SIZE THEN [m |-> m0, rc |-> 1]
    ELSE LET regb == cmos_read(m0, RTC_REG_B)
             m1   == cmos_write(regb.m, RTC_REG_B, OR(regb.val, RTC_B_SET))
             m2   == load_loop(m1, data)
             m3   == cmos_write(m2, RTC_REG_B,
                                ANDNOT(data[RTC_REG_B], RTC_B_SET))
         IN [m |-> m3, rc |-> 0]

\* opened: fopen succeeded; fsize: the file's length; data: its first 64 bytes
load_cmos(m0, opened, fsize, data) ==
    IF ~opened THEN [m |-> m0, rc |-> 1]
    ELSE IF fsize # CMOS_SIZE /\ fsize # 128 THEN [m |-> m0, rc |-> 1]
    ELSE LET regb == cmos_read(m0, RTC_REG_B)
             m1   == cmos_write(regb.m, RTC_REG_B, OR(regb.val, RTC_B_SET))
             m2   == load_loop(m1, data)
             m3   == cmos_write(m2, RTC_REG_B,
                                ANDNOT(data[RTC_REG_B], RTC_B_SET))
         IN [m |-> m3, rc |-> 0]

\* load_cmos on a file: fsize is the length ftell reports, fread takes the
\* first 64 bytes
load_file(m0, f) ==
    load_cmos(m0, f.exists, Len(f.bytes),
              [a \in Addr |-> IF a < Len(f.bytes) THEN f.bytes[a + 1] ELSE 0])

clear_range(m, first, last) ==
    cmos_write_seq(m, [k \in 1..(last - first + 1) |-> <<first + k - 1, 0>>])

factory_defaults ==
    << <<RTC_REG_A, 38>>, <<RTC_REG_B, 2>>,
       <<CMOS_DIAG, 0>>, <<CMOS_SHUTDOWN, 0>>,
       <<CMOS_FLOPPY, 48>>, <<CMOS_DISK, 0>>, <<CMOS_EQUIP, 1>>,
       <<CMOS_BASEMEM_LO, 128>>, <<CMOS_BASEMEM_HI, 2>>,
       <<CMOS_EXTMEM_LO, 0>>, <<CMOS_EXTMEM_HI, 0>>,
       <<CMOS_DISK0_EXT, 0>>, <<CMOS_DISK1_EXT, 0>>,
       <<CMOS_CENTURY, 32>>,
       <<RTC_ALARM_SEC, 192>>, <<RTC_ALARM_MIN, 192>>, <<RTC_ALARM_HRS, 192>> >>

factory_reset_early_update(m0) ==
    LET regb == cmos_read(m0, RTC_REG_B)
        m1   == cmos_write(regb.m, RTC_REG_B, OR(regb.val, RTC_B_SET))
        m2   == cmos_update_checksum(cmos_write_seq(m1, factory_defaults))
        m3   == clear_range(m2, 27, 45)
        m4   == clear_range(m3, 51, 63)
    IN [m |-> cmos_write(m4, RTC_REG_B, 2), rc |-> 0]

factory_reset(m0) ==
    LET regb == cmos_read(m0, RTC_REG_B)
        m1   == cmos_write(regb.m, RTC_REG_B, OR(regb.val, RTC_B_SET))
        m2   == cmos_write_seq(m1, factory_defaults)
        m3   == clear_range(m2, 27, 45)
        m4   == clear_range(m3, 51, 63)
        m5   == cmos_write(m4, RTC_REG_B, 2)
    IN [m |-> cmos_update_checksum(m5), rc |-> 0]

----------------------------------------------------------------------------
(* The I/O ports outside the store.  regs holds the registers behind them: *)
(* pb (port 0x61), the system status 2 latch and the upper bits port 0x62  *)
(* shows beside a nibble, the keyboard and system status 1 bytes of port   *)
(* 0x60, the line control registers of the two UARTs and the data latch of *)
(* the second parallel port (ABSENT when the device is not fitted), and    *)
(* the register the 8259A shows on a read of its command port.  A port     *)
(* machine p is [regs, log].                                               *)

PORT_KBD_DATA == 96
PORT_PB == 97
PORT_STATUS2 == 98
PORT_MOUSE_X == 120
PORT_MOUSE_Y == 122
PB_NIBBLE_SEL == 4
PB_STATUS_MODE == 128
PORT_PIC_CMD == 32
PORT_PIC_DATA == 33
PORT_PIT_CH2 == 66
PORT_PIT_MODE == 67
PORT_DMA_STAT == 8
PORT_COM1_BASE == 1016
PORT_COM2_BASE == 760
PORT_LPT1_DATA == 888
PORT_LPT1_STATUS == 889
PORT_LPT1_CTRL == 890
PORT_LPT2_DATA == 956
PORT_IDA_STATUS == 990
PORT_GAME == 513
PORT_DEAD == 57005

LPT1_LANG_MASK == 7
LPT1_DISP_MASK == 192
LPT1_DISP_SHIFT == 6

ABSENT == 0 - 1

\* What a read of a port returns
port_value(regs, port) ==
    CASE port = PORT_PB -> regs.pb
      [] port = PORT_STATUS2 ->
            regs.stat2_top + (IF AND(regs.pb, PB_NIBBLE_SEL) = 0
                              THEN regs.stat2 \div 16
                              ELSE regs.stat2 % 16)
      [] port = PORT_KBD_DATA ->
            IF AND(regs.pb, PB_STATUS_MODE) # 0 THEN regs.stat1 ELSE regs.kbd
      [] port = PORT_COM1_BASE + 3 ->
            IF regs.com1 = ABSENT THEN 255 ELSE regs.com1
      [] port = PORT_COM2_BASE + 3 ->
            IF regs.com2 = ABSENT THEN 255 ELSE regs.com2
      [] port = PORT_LPT2_DATA ->
            IF regs.lpt2 = ABSENT THEN 255 ELSE regs.lpt2
      [] port = PORT_PIC_CMD -> IF regs.pic_isr THEN regs.isr ELSE regs.irr
      [] port = PORT_LPT1_STATUS -> regs.lpt1_status
      [] OTHER -> 255

\* The registers after a write of val to a port.  On the 8259A command port
\* 0x0A and 0x0B are OCW3 words that select IRR, resp. ISR, for later reads.
port_store(regs, port, val) ==
    CASE port = PORT_PB -> [regs EXCEPT !.pb = val]
      [] port = PORT_COM1_BASE + 3 ->
            IF regs.com1 = ABSENT THEN regs ELSE [regs EXCEPT !.com1 = val]
      [] port = PORT_COM2_BASE + 3 ->
            IF regs.com2 = ABSENT THEN regs ELSE [regs EXCEPT !.com2 = val]
      [] port = PORT_LPT2_DATA ->
            IF regs.lpt2 = ABSENT THEN regs ELSE [regs EXCEPT !.lpt2 = val]
      [] port = PORT_PIC_CMD ->
            IF val = 10 THEN [regs EXCEPT !.pic_isr = FALSE]
            ELSE IF val = 11 THEN [regs EXCEPT !.pic_isr = TRUE]
            ELSE regs
      [] OTHER -> regs

inb(p, port) ==
    LET v == port_value(p.regs, port)
    IN [val |-> v, p |-> [p EXCEPT !.log = Append(@, <<"in", port, v>>)]]

outb(p, val, port) ==
    [regs |-> port_store(p.regs, port, U8(val)),
     log  |-> Append(p.log, <<"out", port, U8(val)>>)]

\* inb() called for each port of the sequence ps in turn, no write between
inb_seq(p, ps) ==
    CHOOSE r \in
        { [vals |-> vs,
           p |-> [regs |-> p.regs,
                  log |-> p.log \o [i \in 1..Len(ps) |->
                                      <<"in", ps[i], vs[i]>>]]]
          : vs \in {[i \in 1..Len(ps) |-> port_value(p.regs, ps[i])]} }
        : TRUE

amstrad_read_sysstat2_no_restore(p0) ==
    LET pb == inb(p0, PORT_PB)
        p1 == outb(pb.p, ANDNOT(pb.val, PB_NIBBLE_SEL), PORT_PB)
        hi == inb(p1, PORT_STATUS2)
        p2 == outb(hi.p, OR(pb.val, PB_NIBBLE_SEL), PORT_PB)
        lo == inb(p2, PORT_STATUS2)
    IN [val |-> U8(OR(AND(hi.val, 15) * 16, AND(lo.val, 15))),
        p |-> outb(lo.p, OR(pb.val, PB_NIBBLE_SEL), PORT_PB)]

amstrad_read_sysstat2(p0) ==
    LET pb == inb(p0, PORT_PB)
        p1 == outb(pb.p, ANDNOT(pb.val, PB_NIBBLE_SEL), PORT_PB)
        hi == inb(p1, PORT_STATUS2)
        p2 == outb(hi.p, OR(pb.val, PB_NIBBLE_SEL), PORT_PB)
        lo == inb(p2, PORT_STATUS2)
    IN [val |-> U8(OR(AND(hi.val, 15) * 16, AND(lo.val, 15))),
        p |-> outb(lo.p, pb.val, PORT_PB)]

amstrad_read_sysstat1(p0) ==
    LET pb == inb(p0, PORT_PB)
        p1 == outb(pb.p, OR(pb.val, PB_STATUS_MODE), PORT_PB)
        v  == inb(p1, PORT_KBD_DATA)
    IN [val |-> v.val, p |-> outb(v.p, pb.val, PORT_PB)]

\* The two status reads one after the other, as both callers make them
amstrad_status(p0) ==
    CHOOSE r \in
        { [stat2 |-> s2.val, stat1 |-> s1.val, p |-> s1.p]
          : <<s2, s1>> \in
              { <<x, amstrad_read_sysstat1(x.p)>>
                : x \in {amstrad_read_sysstat2(p0)} } }
        : TRUE

show_amstrad_full(p0) ==
    CHOOSE res \in
        { [p |-> r2.p, rc |-> 0,
           out |-> [pb |-> r1.vals[1], stat2_raw |-> r1.vals[2],
                    stat2 |-> st.stat2, stat1 |-> st.stat1,
                    lpt_status |-> r2.vals[1], plog |-> r2.p.log,
                    language |-> language_name(
                                     AND(r2.vals[1], LPT1_LANG_MASK)),
                    display |-> display_type_name(
                                    AND(r2.vals[1], LPT1_DISP_MASK)
                                        \div 2^LPT1_DISP_SHIFT)]]
          : <<r1, st, r2>> \in
              { <<a, b, inb_seq(b.p, <<PORT_LPT1_STATUS>>)>>
                : <<a, b>> \in
                    { <<x, amstrad_status(x.p)>>
                      : x \in {inb_seq(p0, <<PORT_PB, PORT_STATUS2>>)} } } }
        : TRUE

\* The save, write, read back and restore of detect_com_port (on the line
\* control register) and detect_lpt_port (on the data latch)
detect_port(p0, port) ==
    LET orig == inb(p0, port)
        p1   == outb(orig.p, 170, port)
        test == inb(p1, port)
    IN [val |-> test.val, p |-> outb(test.p, orig.val, port)]

detect_com_port(p0, base) ==
    CHOOSE r \in
        { [val |-> d.val = 170, p |-> d.p] : d \in {detect_port(p0, base + 3)} }
        : TRUE

detect_lpt_port(p0, base) ==
    CHOOSE r \in
        { [val |-> d.val = 170
                   \/ (base = PORT_LPT1_DATA /\ AND(d.val, 248) = 168),
           p |-> d.p] : d \in {detect_port(p0, base)} }
        : TRUE

\* The port accesses of debug_probe in order
probe_ports(p0) ==
    CHOOSE res \in
        { [p |-> dead.p,
           out |-> [pb |-> r1.vals[1], stat2_raw |-> r1.vals[2],
                    stat2 |-> st.stat2, stat1 |-> st.stat1,
                    imr |-> r2.vals[7], irr |-> irr.val, isr |-> isr.val,
                    com1 |-> c1.val, com2 |-> c2.val, lpt2 |-> l2.val,
                    plog |-> dead.p.log]]
          : <<r1, st, r2, irr, isr, c1, c2, l2, dead>> \in
              { <<a, b, c, d, e, f, g, h, inb_seq(h.p, <<PORT_DEAD>>)>>
                : <<a, b, c, d, e, f, g, h>> \in
                { <<a, b, c, d, e, f, g, detect_lpt_port(g.p, PORT_LPT2_DATA)>>
                  : <<a, b, c, d, e, f, g>> \in
                  { <<a, b, c, d, e, f, detect_com_port(f.p, PORT_COM2_BASE)>>
                    : <<a, b, c, d, e, f>> \in
                    { <<a, b, c, d, e, detect_com_port(
                              inb_seq(e.p, <<PORT_DMA_STAT>>).p,
                              PORT_COM1_BASE)>>
                      : <<a, b, c, d, e>> \in
                      { <<a, b, c, d, inb(outb(d.p, 11, PORT_PIC_CMD),
                                          PORT_PIC_CMD)>>
                        : <<a, b, c, d>> \in
                        { <<a, b, c, inb(outb(c.p, 10, PORT_PIC_CMD),
                                         PORT_PIC_CMD)>>
                          : <<a, b, c>> \in
                          { <<a, b, inb_seq(b.p,
                                   <<PORT_MOUSE_X, PORT_MOUSE_Y,
                                     PORT_IDA_STATUS, PORT_LPT1_DATA,
                                     PORT_LPT1_STATUS, PORT_LPT1_CTRL,
                                     PORT_PIC_DATA>>)>>
                            : <<a, b>> \in
                            { <<x, amstrad_status(x.p)>>
                              : x \in {inb_seq(p0,
                                         <<PORT_PB, PORT_STATUS2>>)} } } } } } } } } }
        : TRUE

\* The store accesses of debug_probe in order
probe_cmos(m0) ==
    CHOOSE res \in
        { [m |-> r3.m,
           out |-> [regs |-> r1.vals, valid |-> v.val, century |-> r2.vals[1],
                    basemem |-> r3.vals[1] + 256 * r3.vals[2]]]
          : <<r1, v, r2, r3>> \in
              { <<a, b, c, cmos_read_seq(c.m,
                               <<CMOS_BASEMEM_LO, CMOS_BASEMEM_HI>>)>>
                : <<a, b, c>> \in
                    { <<a, b, cmos_read_seq(b.m, <<CMOS_CENTURY>>)>>
                      : <<a, b>> \in
                          { <<x, cmos_verify_checksum(x.m)>>
                            : x \in {cmos_read_seq(m0,
                                <<RTC_REG_A, RTC_REG_B, RTC_REG_C, RTC_REG_D,
                                  CMOS_DIAG, CMOS_SHUTDOWN, CMOS_FLOPPY,
                                  CMOS_DISK, CMOS_EQUIP, CMOS_BASEMEM_LO,
                                  CMOS_BASEMEM_HI, CMOS_CHECKSUM_HI,
                                  CMOS_CHECKSUM_LO>>)} } } } }
        : TRUE

debug_probe(m0, p0) ==
    CHOOSE res \in
        { [m |-> c.m, p |-> p.p, rc |-> 0,
           out |-> [ports |-> p.out, cmos |-> c.out,
                    stat2 |-> p.out.stat2, plog |-> p.out.plog]]
          : p \in {probe_ports(p0)}, c \in {probe_cmos(m0)} }
        : TRUE

\* IMR, then IRR and ISR through OCW3, as show_pic and debug_probe read them
pic_read(p0) ==
    CHOOSE r \in
        { [imr |-> a.vals[1], irr |-> b.val, isr |-> c.val, p |-> c.p]
          : <<a, b, c>> \in
              { <<x, y, inb(outb(y.p, 11, PORT_PIC_CMD), PORT_PIC_CMD)>>
                : <<x, y>> \in
                    { <<x, inb(outb(x.p, 10, PORT_PIC_CMD), PORT_PIC_CMD)>>
                      : x \in {inb_seq(p0, <<PORT_PIC_DATA>>)} } } }
        : TRUE

\* The port accesses of show_all: show_amstrad_full, show_display_type,
\* show_amstrad_language, show_ports, show_mouse, show_gameport, show_pic,
\* show_dma, show_pit, show_deadman
show_all_ports(p0) ==
    CHOOSE res \in
        { [p |-> z.p,
           out |-> [amstrad |-> am.out, com1 |-> c1.val, com2 |-> c2.val,
                    lpt1 |-> l1.val, lpt2 |-> l2.val,
                    irr |-> pic.irr, isr |-> pic.isr]]
          : <<am, c1, c2, l1, l2, pic, z>> \in
              { <<a, b, c, d, e, f,
                  inb_seq(outb(inb_seq(f.p, <<PORT_DMA_STAT>>).p,
                               128, PORT_PIT_MODE),
                          <<PORT_PIT_CH2, PORT_PIT_CH2, PORT_PB, PORT_DEAD>>)>>
                : <<a, b, c, d, e, f>> \in
                { <<a, b, c, d, e,
                    pic_read(inb_seq(e.p, <<PORT_MOUSE_X, PORT_MOUSE_Y,
                                            PORT_GAME>>).p)>>
                  : <<a, b, c, d, e>> \in
                  { <<a, b, c, d, detect_lpt_port(d.p, PORT_LPT2_DATA)>>
                    : <<a, b, c, d>> \in
                    { <<a, b, c, detect_lpt_port(c.p, PORT_LPT1_DATA)>>
                      : <<a, b, c>> \in
                      { <<a, b, detect_com_port(b.p, PORT_COM2_BASE)>>
                        : <<a, b>> \in
                        { <<a, detect_com_port(
                                  inb_seq(a.p, <<PORT_LPT1_STATUS,
                                                 PORT_IDA_STATUS,
                                                 PORT_LPT1_STATUS>>).p,
                                  PORT_COM1_BASE)>>
                          : a \in {show_amstrad_full(p0)} } } } } } } }
        : TRUE

show_all(m0, p0) ==
    CHOOSE res \in
        { [m |-> v.m, p |-> pp.p, rc |-> 0,
           out |-> [time |-> t.out, alarm |-> al.out, status |-> st.out,
                    floppy |-> fl.out, harddisk |-> hd.out,
                    equipment |-> eq.out, memory |-> me.out,
                    diag |-> di.out, ports |-> pp.out, valid |-> v.val]]
          : <<t, al, st, fl, hd, eq, me, di, v>> \in
              { <<a, b, c, d, e, f, g, h, cmos_verify_checksum(h.m)>>
                : <<a, b, c, d, e, f, g, h>> \in
                { <<a, b, c, d, e, f, g, show_diagnostics(g.m)>>
                  : <<a, b, c, d, e, f, g>> \in
                  { <<a, b, c, d, e, f, show_memory(f.m)>>
                    : <<a, b, c, d, e, f>> \in
                    { <<a, b, c, d, e, show_equipment(e.m)>>
                      : <<a, b, c, d, e>> \in
                      { <<a, b, c, d, show_harddisk(d.m)>>
                        : <<a, b, c, d>> \in
                        { <<a, b, c, show_floppy(c.m)>>
                          : <<a, b, c>> \in
                          { <<a, b, show_rtc_status(b.m)>>
                            : <<a, b>> \in
                            { <<a, show_alarm(a.m)>>
                              : a \in {show_time(m0)} } } } } } } } },
            pp \in {show_all_ports(p0)} }
        : TRUE

\* The ports as the firmware leaves them on a machine with one UART
IdlePorts ==
    [pb |-> 76, stat2 |-> 165, stat2_top |-> 32, kbd |-> 28, stat1 |-> 13,
     com1 |-> 3, com2 |-> ABSENT, lpt2 |-> ABSENT,
     pic_isr |-> FALSE, irr |-> 1, isr |-> 0, lpt1_status |-> 255]

----------------------------------------------------------------------------
(* Initial stores.  The store is battery-backed and outlives every run of  *)
(* the program, so a command may find any contents: the model starts from  *)
(* a family of stores that covers both data modes and both hour modes of   *)
(* Register B with the other flags set and clear, blank, saturated and     *)
(* mixed cell contents, and a stored checksum that matches or not.         *)

\* Sum mod 65536 of the cells 0x10..0x2D of a store
SumCovered(store) ==
    LET f[i \in CKSUM_FIRST..(CKSUM_LAST + 1)] ==
            IF i > CKSUM_LAST THEN 0 ELSE store[i] + f[i + 1]
    IN f[CKSUM_FIRST] % 65536

\* The 16-bit value stored big-endian in cells 0x2E:0x2F
StoredChecksum(store) ==
    store[CMOS_CHECKSUM_HI] * 256 + store[CMOS_CHECKSUM_LO]

ChecksumValid(store) == StoredChecksum(store) = SumCovered(store)

InitRegB == {121, 2, 132, 110}

InitPatterns == {"zero", "ones", "mixed"}

PatternCell(pat, a) ==
    CASE pat = "zero" -> 0
      [] pat = "ones" -> 255
      [] OTHER -> (a * 37 + 11) % 256

InitStore(regb, pat, valid) ==
    LET base == [a \in Addr |->
                    IF a = RTC_REG_B THEN regb
                    ELSE IF a = RTC_REG_A THEN PatternCell(pat, a) % 128
                    ELSE PatternCell(pat, a)]
        sum  == SumCovered(base)
        ck   == IF valid THEN sum ELSE (sum + 257) % 65536
    IN [base EXCEPT ![CMOS_CHECKSUM_HI] = ck \div 256,
                    ![CMOS_CHECKSUM_LO] = ck % 256]

\* Hours bytes for the stores the reports start from: noon, midnight and
\* afternoon hours in both encodings, with and without the PM bit
HourBytes == {18, 146, 129, 5, 12, 140, 133, 35}

InitClockStore(regb, hrs, valid) ==
    [InitStore(regb, "mixed", valid) EXCEPT ![RTC_HOURS] = hrs]

NoFile == [exists |-> FALSE, bytes |-> <<>>]

NoCmd == [name |-> "none", args |-> <<>>]

NoReport == [name |-> "none", out |-> <<>>, log |-> <<>>]

Init ==
    /\ \E regb \in InitRegB, pat \in InitPatterns, valid \in BOOLEAN :
           /\ cmos = InitStore(regb, pat, valid)
           /\ uip = IF pat = "mixed" THEN MaxUipReads ELSE 0
    /\ pre = cmos
    /\ cmd = NoCmd
    /\ rc = 0
    /\ log = <<>>
    /\ rep = NoReport
    /\ nops = 0
    /\ ports = IdlePorts
    /\ file = NoFile

----------------------------------------------------------------------------
(* Command lines *)

TimeArgs ==
    { <<TRUE, 0, 0, 0>>, <<TRUE, 23, 59, 59>>, <<TRUE, 12, 34, 56>>,
      <<TRUE, 24, 0, 0>>, <<TRUE, 0, 60, 0>>, <<TRUE, 0, 0, 60>>,
      <<TRUE, -1, 0, 0>>, <<FALSE, 0, 0, 0>> }

DateArgs ==
    { <<TRUE, 1, 1, 1980>>, <<TRUE, 31, 12, 2099>>, <<TRUE, 15, 6, 2026>>,
      <<TRUE, 0, 1, 2000>>, <<TRUE, 32, 1, 2000>>, <<TRUE, 1, 0, 2000>>,
      <<TRUE, 1, 13, 2000>>, <<TRUE, 1, 1, 1979>>, <<TRUE, 1, 1, 2100>> }

DowArgs == {0, 1, 7, 8}

AlarmArgs ==
    { <<TRUE, -1, -1, 0>>, <<TRUE, -1, -1, -1>>, <<TRUE, 23, 59, 59>>,
      <<TRUE, 0, 0, 0>>, <<TRUE, 7, -1, 30>>, <<TRUE, 12, 45, -1>>,
      <<TRUE, -2, 5, 9>>,
      <<TRUE, 24, 0, 0>>, <<TRUE, 0, 60, 0>>, <<TRUE, 0, 0, 60>>,
      <<FALSE, 0, 0, 0>> }

FloppyArgs ==
    { <<"A", 3>>, <<"a", 0>>, <<"0", 4>>, <<"B", 4>>, <<"b", 1>>,
      <<"X", 2>>, <<"A", 5>>, <<"B", -1>> }

HarddiskArgs ==
    { <<"0", 15>>, <<"C", 0>>, <<"c", 2>>, <<"1", 14>>, <<"D", 15>>,
      <<"A", 3>>, <<"0", 16>>, <<"1", -1>> }

EquipArgs ==
    { <<"fpu", 0>>, <<"coprocessor", 7>>, <<"8087", 1>>,
      <<"video", 0>>, <<"video", 3>>, <<"video", 4>>, <<"video", -1>>,
      <<"floppy-count", 0>>, <<"floppy-count", 4>>, <<"floppy-count", 5>>,
      <<"floppy-count", 2>>,
      <<"bogus", 1>> }

BasememArgs == {63, 64, 256, 640, 641}

RtcModeArgs ==
    { <<"24h", 0>>, <<"24h", 1>>, <<"bcd", 0>>, <<"bcd", 1>>,
      <<"sqw", 1>>, <<"dse", 0>>, <<"pie", 1>>, <<"uie", 0>>,
      <<"sqw", 0>>, <<"dse", 1>>, <<"pie", 0>>, <<"uie", 2>>,
      <<"rate", 0>>, <<"rate", 15>>, <<"rate", 16>>, <<"rate", -1>>,
      <<"bogus", 1>> }

WriteArgs ==
    { <<0, 89>>, <<11, 134>>, <<12, 255>>, <<16, 51>>, <<29, 1>>,
      <<45, 255>>, <<46, 1>>, <<47, 254>>, <<63, 170>>,
      <<64, 0>>, <<21, 256>>, <<65557, 7>> }

FillArgs ==
    { <<0, 9, 0>>, <<48, 63, 170>>, <<16, 45, 1>>, <<10, 20, 4>>,
      <<46, 47, 0>>, <<0, 63, 85>>, <<10, 11, 200>>,
      <<5, 4, 0>>, <<0, 64, 0>>, <<0, 3, 256>> }

\* Snapshot files for load: the live store with one covered cell changed,
\* the live store itself, and a blank image; of the right and wrong lengths.
OneCellChanged(a, v) == [cmos EXCEPT ![a] = v]

LoadFiles ==
    { [opened |-> TRUE, fsize |-> CMOS_SIZE,
       data |-> OneCellChanged(a, (cmos[a] + d) % 256)] :
          a \in {16, 45}, d \in {1, 128} }
    \cup { [opened |-> TRUE, fsize |-> n, data |-> cmos] : n \in {64, 128, 63} }
    \cup { [opened |-> TRUE, fsize |-> n, data |-> [a \in Addr |-> 0]] :
             n \in {64, 65} }
    \cup { [opened |-> FALSE, fsize |-> 0, data |-> [a \in Addr |-> 0]] }

\* Snapshot files as byte sequences.  The first 64 bytes are blank or mixed
\* (the mixed ones carry the SET bit in the byte of Register B); the bytes
\* after them are all 0 or all 255.
FileLens == {0, 63, 64, 65, 128, 129}

FileByte(head, tail, i) ==
    IF i > CMOS_SIZE THEN tail
    ELSE IF head = "zero" THEN 0
    ELSE ((i - 1) * 37 + 11) % 256

FixedFiles ==
    { [exists |-> TRUE, bytes |-> [i \in 1..n |-> FileByte(head, tail, i)]] :
        n \in FileLens, head \in {"zero", "mixed"}, tail \in {0, 255} }

\* How many bytes a failing fwrite leaves in the file
ShortWrites == {0, 63}

\* The files a command may be pointed at: the snapshot saved last, a name
\* that does not exist, and the fixed ones
DiskFiles == {file, NoFile} \cup FixedFiles

\* The ports as a command may find them: either nibble selected and the
\* speaker on or off, two values of the status latch, the second UART and
\* the second parallel port fitted or not, the 8259A set to show IRR or ISR
PortStates ==
    { [IdlePorts EXCEPT !.pb = pb, !.stat2 = s2, !.com2 = c2, !.lpt2 = l2,
                        !.pic_isr = sel] :
        pb \in {76, 72, 207}, s2 \in {165, 60}, c2 \in {ABSENT, 27},
        l2 \in {ABSENT, 85}, sel \in BOOLEAN }

P0 == [regs |-> ports, log |-> <<>>]

ReadArgs == {0, 12, 46, 47, 63, 64, 65548}

M0 == [cmos |-> cmos, uip |-> uip, log |-> <<>>]

\* A further setting command may run
CanSet == nops < MaxOps

\* One run of a setting command: handler result r for command line
\* (name, args)
Ran(name, args, r) ==
    /\ cmos' = r.m.cmos
    /\ uip' = r.m.uip
    /\ log' = r.m.log
    /\ rc' = r.rc
    /\ pre' = cmos
    /\ cmd' = [name |-> name, args |-> args]
    /\ rep' = NoReport
    /\ nops' = nops + 1
    /\ ports' = ports
    /\ file' = file

\* One run of a report command: handler result r
Reported(name, r) ==
    /\ cmos' = r.m.cmos
    /\ uip' = r.m.uip
    /\ rep' = [name |-> name, out |-> r.out, log |-> r.m.log]
    /\ UNCHANGED <<pre, cmd, rc, log, nops, ports, file>>

Checksum ==
    /\ CanSet
    /\ \E r \in {checksum_cmd(M0)} :
             Ran("checksum", <<>>, r)

SetTime ==
    /\ CanSet
    /\ \E a \in TimeArgs :
         \E r \in {set_time(M0, a[1], a[2], a[3], a[4])} :
             Ran("set-time", a, r)

SetDate ==
    /\ CanSet
    /\ \E a \in DateArgs :
         \E r \in {set_date(M0, a[1], a[2], a[3], a[4])} :
             Ran("set-date", a, r)

SetDow ==
    /\ CanSet
    /\ \E d \in DowArgs : \E r \in {set_dow(M0, d)} :
             Ran("set-dow", <<d>>, r)

SetAlarm ==
    /\ CanSet
    /\ \E a \in AlarmArgs :
         \E r \in {set_alarm(M0, a[1], a[2], a[3], a[4])} :
             Ran("set-alarm", a, r)

AlarmEnable ==
    /\ CanSet
    /\ \E e \in {0, 1} :
         \E r \in {alarm_enable(M0, e)} :
             Ran(IF e = 1 THEN "alarm-enable" ELSE "alarm-disable", <<e>>, r)

ShowAlarm ==
    \E r \in {show_alarm(M0)} : Reported("alarm", r)

ShowTime ==
    \E r \in {show_time(M0)} : Reported("time", r)

\* time, with the data mode bit of Register B flipped by an interrupt
\* handler while the fields are decoded
ShowTimeInterrupted ==
    \E k \in 1..7 :
        \E r \in {show_time_interrupted(M0, k,
                      IF AND(cmos[RTC_REG_B], RTC_B_DM) # 0
                      THEN cmos[RTC_REG_B] - RTC_B_DM
                      ELSE cmos[RTC_REG_B] + RTC_B_DM)} :
            Reported("time", r)

Watch ==
    \E r \in {watch_frame(M0)} : Reported("watch", r)

\* A byte through bin_to_rtc and back through rtc_to_bin, and the same byte
\* through rtc_to_bin alone
codec(m0, b) ==
    LET enc == bin_to_rtc(m0, b)
        dec == rtc_to_bin(enc.m, enc.val)
        raw == rtc_to_bin(dec.m, b)
    IN [m |-> raw.m, rc |-> 0,
        out |-> [b |-> b, enc |-> enc.val, dec |-> dec.val, raw |-> raw.val]]

Codec ==
    \E b \in Byte : \E r \in {codec(M0, b)} : Reported("codec", r)

Dump ==
    \E r \in {dump_cmos(M0)} : Reported("dump", r)

Compare ==
    \E f \in DiskFiles : \E r \in {compare_cmos(M0, f)} : Reported("compare", r)

Save ==
    \E io \in {"ok", "open fails", "write fails"} :
        \E written \in IF io = "write fails" THEN ShortWrites ELSE {CMOS_SIZE} :
            \E r \in {save_cmos(M0, file, io, written)} :
                /\ cmos' = r.m.cmos /\ uip' = r.m.uip
                /\ rep' = [name |-> "save", out |-> r.out, log |-> r.m.log]
                /\ file' = r.file
                /\ UNCHANGED <<pre, cmd, rc, log, nops, ports>>

Import ==
    /\ CanSet
    /\ \E f \in DiskFiles : \E r \in {load_file(M0, f)} :
           Ran("load", <<f>>, r)

\* factory-reset run up to MaxResets times over
ResetAgain ==
    /\ nops < MaxOps + MaxResets
    /\ \E r \in {factory_reset(M0)} : Ran("factory-reset", <<>>, r)

Amstrad ==
    \E r \in {show_amstrad_full(P0)} :
        /\ ports' = r.p.regs
        /\ rep' = [name |-> "amstrad", out |-> r.out, log |-> <<>>]
        /\ UNCHANGED <<cmos, uip, pre, cmd, rc, log, nops, file>>

Probe ==
    \E r \in {debug_probe(M0, P0)} :
        /\ cmos' = r.m.cmos /\ uip' = r.m.uip
        /\ ports' = r.p.regs
        /\ rep' = [name |-> "probe", out |-> r.out, log |-> r.m.log]
        /\ UNCHANGED <<pre, cmd, rc, log, nops, file>>

Show ==
    \E r \in {show_all(M0, P0)} :
        /\ cmos' = r.m.cmos /\ uip' = r.m.uip
        /\ ports' = r.p.regs
        /\ rep' = [name |-> "show", out |-> r.out, log |-> r.m.log]
        /\ UNCHANGED <<pre, cmd, rc, log, nops, file>>

ShowFloppy ==
    \E r \in {show_floppy(M0)} : Reported("floppy", r)

ShowHarddisk ==
    \E r \in {show_harddisk(M0)} : Reported("harddisk", r)

ShowEquipment ==
    \E r \in {show_equipment(M0)} : Reported("equipment", r)

ShowMemory ==
    \E r \in {show_memory(M0)} : Reported("memory", r)

ShowStatus ==
    \E r \in {show_rtc_status(M0)} : Reported("status", r)

ShowDiag ==
    \E r \in {show_diagnostics(M0)} : Reported("diag", r)

ShowBattery ==
    \E r \in {show_battery(M0)} : Reported("battery", r)

Read ==
    \E addr \in ReadArgs, hexfirst \in BOOLEAN :
        \E r \in {raw_read(M0, addr, hexfirst)} : Reported("read", r)

SetFloppy ==
    /\ CanSet
    /\ \E a \in FloppyArgs :
         \E r \in {set_floppy(M0, a[1], a[2])} :
             Ran("set-floppy", a, r)

SetHarddisk ==
    /\ CanSet
    /\ \E a \in HarddiskArgs :
         \E r \in {set_harddisk(M0, a[1], a[2])} :
             Ran("set-harddisk", a, r)

SetEquip ==
    /\ CanSet
    /\ \E a \in EquipArgs :
         \E r \in {set_equipment(M0, a[1], a[2])} :
             Ran("set-equip", a, r)

SetBasemem ==
    /\ CanSet
    /\ \E kb \in BasememArgs :
         \E r \in {set_basemem(M0, kb)} :
             Ran("set-basemem", <<kb>>, r)

SetRtc ==
    /\ CanSet
    /\ \E a \in RtcModeArgs :
         \E r \in {set_rtc_mode(M0, a[1], a[2])} :
             Ran("set-rtc", a, r)

ClearDiag ==
    /\ CanSet
    /\ \E r \in {clear_diagnostics(M0)} :
             Ran("clear-diag", <<>>, r)

Write ==
    /\ CanSet
    /\ \E a \in WriteArgs : \E r \in {raw_write(M0, a[1], a[2])} :
             Ran("write", a, r)

Fill ==
    /\ CanSet
    /\ \E a \in FillArgs :
         \E r \in {fill_cmos(M0, a[1], a[2], a[3])} :
             Ran("fill", a, r)

Load ==
    /\ CanSet
    /\ \E f \in LoadFiles :
         \E r \in {load_cmos(M0, f.opened, f.fsize, f.data)} :
             Ran("load", <<f.opened, f.fsize, f.data>>, r)

FactoryReset ==
    /\ CanSet
    /\ \E r \in {factory_reset(M0)} :
             Ran("factory-reset", <<>>, r)

Next ==
    \/ Checksum
    \/ SetTime
    \/ SetDate
    \/ SetDow
    \/ SetAlarm
    \/ AlarmEnable
    \/ ShowAlarm
    \/ SetFloppy
    \/ SetHarddisk
    \/ SetEquip
    \/ SetBasemem
    \/ SetRtc
    \/ ClearDiag
    \/ Write
    \/ Fill
    \/ Load
    \/ FactoryReset

Spec == Init /\ [][Next]_vars

\* The commands that set the configuration bytes and the checksum
NextConfig ==
    \/ Checksum
    \/ SetFloppy
    \/ SetHarddisk
    \/ SetEquip
    \/ SetBasemem
    \/ ClearDiag
    \/ Write
    \/ Fill
    \/ Load
    \/ FactoryReset

SpecConfig == Init /\ [][NextConfig]_vars

\* The commands of the clock, the alarm and the RTC mode
NextClock ==
    \/ SetTime
    \/ SetDate
    \/ SetDow
    \/ SetAlarm
    \/ AlarmEnable
    \/ SetRtc
    \/ ShowAlarm

SpecClock == Init /\ [][NextClock]_vars

\* The reports, and the checksum command, over stores with the hours of
\* HourBytes
InitReport ==
    /\ \E regb \in InitRegB, hrs \in HourBytes, valid \in BOOLEAN :
           /\ cmos = InitClockStore(regb, hrs, valid)
           /\ uip = IF valid THEN 0 ELSE MaxUipReads
    /\ pre = cmos
    /\ cmd = NoCmd
    /\ rc = 0
    /\ log = <<>>
    /\ rep = NoReport
    /\ nops = 0
    /\ ports = IdlePorts
    /\ file = NoFile

\* One report per run of the checksum command: a report starts from an initial
\* state or from the state the checksum command left
FreshRun == rep = NoReport

NextReport ==
    \/ Checksum
    \/ FreshRun /\ Show
    \/ FreshRun /\ ShowTime
    \/ FreshRun /\ ShowAlarm
    \/ FreshRun /\ ShowFloppy
    \/ FreshRun /\ ShowHarddisk
    \/ FreshRun /\ ShowEquipment
    \/ FreshRun /\ ShowMemory
    \/ FreshRun /\ ShowStatus
    \/ FreshRun /\ ShowDiag
    \/ FreshRun /\ ShowBattery
    \/ FreshRun /\ Watch
    \/ FreshRun /\ Dump
    \/ FreshRun /\ Read
    \/ FreshRun /\ Compare
    \/ FreshRun /\ Save

SpecReport == InitReport /\ [][NextReport]_vars

\* The codec of clock fields applied to every byte, in both data modes
InitCodec ==
    /\ \E regb \in InitRegB : cmos = InitStore(regb, "zero", TRUE)
    /\ uip = 0
    /\ pre = cmos
    /\ cmd = NoCmd
    /\ rc = 0
    /\ log = <<>>
    /\ rep = NoReport
    /\ nops = 0
    /\ ports = IdlePorts
    /\ file = NoFile

NextCodec == Codec

SpecCodec == InitCodec /\ [][NextCodec]_vars

\* The commands that wait for the update to end, on chips that show the
\* UIP bit for no read, a few reads, about RTC_UIP_TIMEOUT reads, and always
UipStarts ==
    {0, 1, MaxUipReads, RTC_UIP_TIMEOUT - 1, RTC_UIP_TIMEOUT, UIP_STUCK}

InitUip ==
    /\ \E regb \in InitRegB, u \in UipStarts :
           /\ u \notin {0, 1, MaxUipReads} => regb = 2
           /\ cmos = InitStore(regb, "mixed", TRUE)
           /\ uip = u
    /\ pre = cmos
    /\ cmd = NoCmd
    /\ rc = 0
    /\ log = <<>>
    /\ rep = NoReport
    /\ nops = 0
    /\ ports = IdlePorts
    /\ file = NoFile

NextUip ==
    \/ ShowTime
    \/ ShowAlarm
    \/ Dump
    \/ Compare
    \/ Save

SpecUip == InitUip /\ [][NextUip]_vars

\* Snapshots: save and load of a file
InitSnapshot ==
    /\ \E regb \in InitRegB, pat \in {"ones", "mixed"} :
           /\ cmos = InitStore(regb, pat, TRUE)
           /\ uip = IF pat = "mixed" THEN MaxUipReads ELSE 0
    /\ pre = cmos
    /\ cmd = NoCmd
    /\ rc = 0
    /\ log = <<>>
    /\ rep = NoReport
    /\ nops = 0
    /\ ports = IdlePorts
    /\ file = NoFile

NextSnapshot ==
    \/ Save
    \/ Import

SpecSnapshot == InitSnapshot /\ [][NextSnapshot]_vars

\* factory-reset, once and again, on the initial stores and after a write
\* or a fill
NextReset ==
    \/ ResetAgain
    \/ Write
    \/ Fill

SpecReset == Init /\ [][NextReset]_vars

\* The commands that work the I/O ports, over the port states
InitPorts ==
    /\ \E pat \in {"ones", "mixed"} :
           /\ cmos = InitStore(2, pat, TRUE)
           /\ uip = IF pat = "mixed" THEN MaxUipReads ELSE 0
    /\ pre = cmos
    /\ cmd = NoCmd
    /\ rc = 0
    /\ log = <<>>
    /\ rep = NoReport
    /\ nops = 0
    /\ ports \in PortStates
    /\ file = NoFile

NextPorts ==
    \/ Amstrad
    \/ Probe

SpecPorts == InitPorts /\ [][NextPorts]_vars

\* The time report, alone and with a change of the data mode under way
NextRace ==
    \/ ShowTime
    \/ ShowTimeInterrupted

SpecRace == InitReport /\ [][NextRace]_vars

\* The reports that look a name up, over every byte in the day-of-week,
\* month, Register A and drive type cells and behind the printer status
\* port, in both data modes
InitDecode ==
    /\ \E b \in Byte, regb \in {2, 6} :
           /\ cmos = [InitStore(regb, "zero", TRUE) EXCEPT
                          ![RTC_DAY_OF_WEEK] = b, ![RTC_MONTH] = b,
                          ![RTC_REG_A] = b % RTC_A_UIP, ![CMOS_DISK] = b,
                          ![CMOS_CHECKSUM_LO] = b]
           /\ uip = IF b >= RTC_A_UIP THEN 1 ELSE 0
           /\ ports = [IdlePorts EXCEPT !.lpt1_status = b]
    /\ pre = cmos
    /\ cmd = NoCmd
    /\ rc = 0
    /\ log = <<>>
    /\ rep = NoReport
    /\ nops = 0
    /\ file = NoFile

NextDecode ==
    \/ FreshRun /\ ShowTime
    \/ FreshRun /\ ShowStatus
    \/ FreshRun /\ ShowHarddisk
    \/ FreshRun /\ Amstrad

SpecDecode == InitDecode /\ [][NextDecode]_vars

\* set-time and the time report after it
NextTime ==
    \/ SetTime
    \/ ShowTime

SpecTime == Init /\ [][NextTime]_vars

----------------------------------------------------------------------------
(* Vocabulary of the properties *)

\* A machine holding the given store, with no update cycle pending
Mach(store) == [cmos |-> store, uip |-> 0, log |-> <<>>]

\* verify() run on the given store
VerifyOn(store) == cmos_verify_checksum(Mach(store)).val

\* The transactions of cmos_update_checksum(): the 30 reads of 0x10..0x2D in
\* order, then the writes of 0x2E and 0x2F
UpdateRanLast(l) ==
    LET n == Len(l)
    IN /\ n >= 32
       /\ \A k \in 1..30 : l[n - 32 + k][1] = "r" /\ l[n - 32 + k][2] = 15 + k
       /\ l[n - 1][1] = "w" /\ l[n - 1][2] = CMOS_CHECKSUM_HI
       /\ l[n][1] = "w" /\ l[n][2] = CMOS_CHECKSUM_LO

ChecksumCellsKept ==
    /\ cmos[CMOS_CHECKSUM_HI] = pre[CMOS_CHECKSUM_HI]
    /\ cmos[CMOS_CHECKSUM_LO] = pre[CMOS_CHECKSUM_LO]

\* The covered cells on which two stores differ
CoveredDiff(s1, s2) == {a \in Covered : s1[a] # s2[a]}

\* Addresses as raw_write and fill_cmos see them (unsigned int)
ArgU(x) == x % 65536

----------------------------------------------------------------------------
(* C1.  For any contents of the store, right after cmos_update_checksum()  *)
(* has run, cmos_verify_checksum() returns true: the big-endian 16-bit     *)
(* value in cells 0x2E:0x2F equals the sum mod 65536 of cells 0x10..0x2D.  *)

C1_VerifyAfterUpdate ==
    UpdateRanLast(log) => VerifyOn(cmos) /\ ChecksumValid(cmos)

\* the checksum command repaired a store whose checksum did not match
C1_Witness ==
    /\ cmd.name = "checksum"
    /\ UpdateRanLast(log)
    /\ ~ChecksumValid(pre)
    /\ cmos[CMOS_CHECKSUM_HI] # pre[CMOS_CHECKSUM_HI]
    /\ cmos[CMOS_CHECKSUM_LO] # pre[CMOS_CHECKSUM_LO]

----------------------------------------------------------------------------
(* C2.  From a store on which verify() is true, a change of exactly one    *)
(* cell of 0x10..0x2D to another value, with no update() after it, makes   *)
(* verify() false.  (The change is made by loading a snapshot that differs *)
(* from the live store in that one cell: load does not recompute.)         *)

OneCoveredCellChanged ==
    /\ cmd.name = "load"
    /\ rc = 0
    /\ Cardinality(CoveredDiff(pre, cmos)) = 1
    /\ ChecksumCellsKept

C2_SingleChangeBreaksVerify ==
    (VerifyOn(pre) /\ OneCoveredCellChanged) => ~VerifyOn(cmos)

C2_Witness ==
    /\ VerifyOn(pre)
    /\ OneCoveredCellChanged
    /\ CoveredDiff(pre, cmos) = {CKSUM_LAST}
    /\ ~VerifyOn(cmos)

----------------------------------------------------------------------------
(* C3.  Every setter that writes a cell of 0x10..0x2D (set-floppy,         *)
(* set-harddisk, set-equip, set-basemem, write to an address in            *)
(* 0x10..0x2D, fill, factory-reset) recomputes the checksum as its last    *)
(* store access, so when it returns success verify() is true, whatever the *)
(* store and its checksum were before.                                     *)

CoveredSetterSucceeded ==
    /\ rc = 0
    /\ \/ cmd.name \in {"set-floppy", "set-harddisk", "set-equip",
                        "set-basemem", "factory-reset"}
       \/ cmd.name = "write" /\ ArgU(cmd.args[1]) \in Covered
       \/ cmd.name = "fill"
          /\ \E a \in Covered : ArgU(cmd.args[1]) <= a /\ a <= ArgU(cmd.args[2])

C3_CoveredSettersRecompute ==
    CoveredSetterSucceeded => UpdateRanLast(log) /\ VerifyOn(cmos)

\* set-basemem on a store whose checksum did not match
C3_Witness ==
    /\ cmd.name = "set-basemem"
    /\ rc = 0
    /\ ~VerifyOn(pre)
    /\ cmos[CMOS_BASEMEM_LO] # pre[CMOS_BASEMEM_LO]
    /\ VerifyOn(cmos)

----------------------------------------------------------------------------
(* C4.  An operation that writes no cell of 0x10..0x2D and is not aimed at *)
(* the checksum cells (set-time, set-date, set-dow, set-alarm,             *)
(* alarm-enable/disable, set-rtc, clear-diag, write to an address outside  *)
(* 0x10..0x2F, fill of a range wholly outside 0x10..0x2F) leaves cells     *)
(* 0x2E and 0x2F unchanged, for any prior store.                           *)

OutsideChecksumArea(a) == a < CKSUM_FIRST \/ a > CMOS_CHECKSUM_LO

UncoveredOperation ==
    \/ cmd.name \in {"set-time", "set-date", "set-dow", "set-alarm",
                     "alarm-enable", "alarm-disable", "set-rtc", "clear-diag"}
    \/ cmd.name = "write" /\ ArgU(cmd.args[1]) < CMOS_SIZE
       /\ OutsideChecksumArea(ArgU(cmd.args[1]))
    \/ cmd.name = "fill"
       /\ ArgU(cmd.args[1]) <= ArgU(cmd.args[2])
       /\ ArgU(cmd.args[2]) < CMOS_SIZE
       /\ \A a \in ArgU(cmd.args[1])..ArgU(cmd.args[2]) : OutsideChecksumArea(a)

C4_UncoveredKeepChecksum == UncoveredOperation => ChecksumCellsKept

----------------------------------------------------------------------------
(* C5.  set-time, set-date and set-dow called with a component outside its *)
(* range (hours 0-23, minutes and seconds 0-59, day 1-31, month 1-12, year *)
(* 1980-2099, day of week 1-7) return failure without issuing any read or  *)
(* write transaction, so every cell is unchanged.                          *)

BadClockInput ==
    \/ cmd.name = "set-time"
       /\ (cmd.args[2] \notin 0..23 \/ cmd.args[3] \notin 0..59
           \/ cmd.args[4] \notin 0..59)
    \/ cmd.name = "set-date"
       /\ (cmd.args[2] \notin 1..31 \/ cmd.args[3] \notin 1..12
           \/ cmd.args[4] \notin 1980..2099)
    \/ cmd.name = "set-dow" /\ cmd.args[1] \notin 1..7

C5_BadClockInputTouchesNothing ==
    BadClockInput => rc = 1 /\ log = <<>> /\ cmos = pre

C5_Witness ==
    /\ cmd.name = "set-date"
    /\ cmd.args = <<TRUE, 1, 1, 2100>>
    /\ rc = 1
    /\ log = <<>>

----------------------------------------------------------------------------
(* C6.  set-floppy rejects every type outside 0..4, set-harddisk every     *)
(* type outside 0..15, and both a drive selector that names neither drive; *)
(* a rejected call returns failure and leaves the drive-type cell (0x10,   *)
(* resp. 0x12) and the checksum cells as they were.                        *)

FloppyRejectable ==
    /\ cmd.name = "set-floppy"
    /\ (cmd.args[2] \notin 0..4
        \/ cmd.args[1] \notin {"A", "a", "0", "B", "b", "1"})

HarddiskRejectable ==
    /\ cmd.name = "set-harddisk"
    /\ (cmd.args[2] \notin 0..15
        \/ cmd.args[1] \notin {"0", "C", "c", "1", "D", "d"})

C6_DriveTypeRejection ==
    /\ FloppyRejectable =>
          rc = 1 /\ cmos[CMOS_FLOPPY] = pre[CMOS_FLOPPY] /\ ChecksumCellsKept
    /\ HarddiskRejectable =>
          rc = 1 /\ cmos[CMOS_DISK] = pre[CMOS_DISK] /\ ChecksumCellsKept

\* a floppy type one above the range, refused on a store whose checksum is stale
C6_Witness ==
    /\ cmd.name = "set-floppy"
    /\ cmd.args = <<"A", 5>>
    /\ rc = 1
    /\ ~ChecksumValid(cmos)
    /\ cmos = pre

----------------------------------------------------------------------------
(* C7.  Every setter refuses malformed input before any hardware write:    *)
(* set-alarm with a non-wildcard hour outside 0-23 or minute/second        *)
(* outside 0-59, set-equip with an unknown field or a video /              *)
(* floppy-count value out of range, set-rtc with an unknown mode or a rate *)
(* outside 0-15, write and fill with an address >= 64 or a value > 255.    *)
(* A refused call returns failure and changes no cell.                     *)

AlarmFieldBad(v, max) == v >= 0 /\ v > max

MalformedInput ==
    \/ cmd.name = "set-alarm"
       /\ (AlarmFieldBad(cmd.args[2], 23) \/ AlarmFieldBad(cmd.args[3], 59)
           \/ AlarmFieldBad(cmd.args[4], 59))
    \/ cmd.name = "set-equip"
       /\ \/ cmd.args[1] \notin {"fpu", "coprocessor", "8087", "video",
                                 "floppy-count"}
          \/ cmd.args[1] = "video" /\ cmd.args[2] \notin 0..3
          \/ cmd.args[1] = "floppy-count" /\ cmd.args[2] \notin 0..4
    \/ cmd.name = "set-rtc"
       /\ \/ cmd.args[1] \notin {"24h", "bcd", "sqw", "dse", "pie", "uie",
                                 "rate"}
          \/ cmd.args[1] = "rate" /\ cmd.args[2] \notin 0..15
    \/ cmd.name = "write" /\ (cmd.args[1] >= CMOS_SIZE \/ cmd.args[2] > 255)
    \/ cmd.name = "fill"
       /\ (cmd.args[1] >= CMOS_SIZE \/ cmd.args[2] >= CMOS_SIZE
           \/ cmd.args[3] > 255)

C7_MalformedInputRefused == MalformedInput => rc = 1 /\ cmos = pre

----------------------------------------------------------------------------
(* C8.  In set-time, set-date, set-dow and set-alarm with valid input,     *)
(* every write to a time, date, century or alarm cell comes after a write  *)
(* of Register B with bit 0x80 set and before a write of Register B with   *)
(* that bit clear, and the bit is clear when the operation returns.        *)

ClockCells ==
    {RTC_SECONDS, RTC_MINUTES, RTC_HOURS, RTC_ALARM_SEC, RTC_ALARM_MIN,
     RTC_ALARM_HRS, RTC_DAY_OF_WEEK, RTC_DAY_OF_MONTH, RTC_MONTH, RTC_YEAR,
     CMOS_CENTURY}

ClockWrites(l) == {i \in 1..Len(l) : l[i][1] = "w" /\ l[i][2] \in ClockCells}

HaltWrite(e) == e[1] = "w" /\ e[2] = RTC_REG_B /\ e[3] >= 128

ResumeWrite(e) == e[1] = "w" /\ e[2] = RTC_REG_B /\ e[3] < 128

Bracketed(l) ==
    \A i \in ClockWrites(l) :
        /\ \E j \in 1..(i - 1) :
              /\ HaltWrite(l[j])
              /\ \A k \in (j + 1)..(i - 1) : ~ResumeWrite(l[k])
        /\ \E j \in (i + 1)..Len(l) : ResumeWrite(l[j])

ClockSetterSucceeded ==
    cmd.name \in {"set-time", "set-date", "set-dow", "set-alarm"} /\ rc = 0

C8_ClockWritesBracketed ==
    ClockSetterSucceeded => Bracketed(log) /\ cmos[RTC_REG_B] < 128

\* set-date wrote day, month, year and century inside the bracket
C8_Witness ==
    /\ cmd.name = "set-date"
    /\ rc = 0
    /\ Cardinality(ClockWrites(log)) = 4
    /\ Bracketed(log)

----------------------------------------------------------------------------
(* C9.  After a successful set-time, set-date, set-dow or set-alarm,       *)
(* Register B holds the value read from it at the start of the operation   *)
(* with only bit 7 cleared.                                                *)

C9_RegisterBRestored ==
    ClockSetterSucceeded =>
        /\ log[1] = <<"r", RTC_REG_B, pre[RTC_REG_B]>>
        /\ cmos[RTC_REG_B] = pre[RTC_REG_B] % 128

\* the halt bit was already set before set-alarm and is clear after it
C9_Witness ==
    /\ cmd.name = "set-alarm"
    /\ rc = 0
    /\ pre[RTC_REG_B] >= 128
    /\ pre[RTC_REG_B] % 128 # 0
    /\ cmos[RTC_REG_B] = pre[RTC_REG_B] % 128

----------------------------------------------------------------------------
(* C10.  Alarm wildcard round trip: after set-alarm with each field either *)
(* the wildcard (-1) or a value in range, in BCD or binary mode, a         *)
(* wildcard field leaves 0xC0 in its cell and is reported as wildcard by   *)
(* the alarm report, and a valued field leaves the encoding of the value   *)
(* and is reported as that value.  So set-alarm(-1, -1, 0) leaves 0xC0,    *)
(* 0xC0 and the encoding of 0, and reads back as wildcard, wildcard, 0.    *)

Encoded(store, v) ==
    IF (store[RTC_REG_B] \div 4) % 2 = 1 THEN v ELSE ((v \div 10) * 16) + (v % 10)

AlarmFieldOk(v, max) == v = 0 - 1 \/ v \in 0..max

AlarmFieldKept(v, cell, shown) ==
    IF v = 0 - 1
    THEN cmos[cell] = 192 /\ shown = WILD
    ELSE cmos[cell] = Encoded(cmos, v) /\ shown = v

AlarmSetThenShown ==
    /\ rep.name = "alarm"
    /\ cmd.name = "set-alarm"
    /\ rc = 0
    /\ AlarmFieldOk(cmd.args[2], 23)
    /\ AlarmFieldOk(cmd.args[3], 59)
    /\ AlarmFieldOk(cmd.args[4], 59)

C10_AlarmRoundTrip ==
    AlarmSetThenShown =>
        /\ AlarmFieldKept(cmd.args[2], RTC_ALARM_HRS, rep.out.hrs)
        /\ AlarmFieldKept(cmd.args[3], RTC_ALARM_MIN, rep.out.min)
        /\ AlarmFieldKept(cmd.args[4], RTC_ALARM_SEC, rep.out.sec)

\* set-alarm(-1, -1, 0) in binary mode, read back
C10_Witness ==
    /\ AlarmSetThenShown
    /\ cmd.args = <<TRUE, 0 - 1, 0 - 1, 0>>
    /\ (cmos[RTC_REG_B] \div 4) % 2 = 1
    /\ cmos[RTC_ALARM_HRS] = 192 /\ cmos[RTC_ALARM_MIN] = 192
    /\ cmos[RTC_ALARM_SEC] = 0
    /\ rep.out.hrs = WILD /\ rep.out.min = WILD /\ rep.out.sec = 0

----------------------------------------------------------------------------
(* Hour folding *)

\* The data mode of a store: TRUE when Register B selects BCD
StoreIsBcd(store) == AND(store[RTC_REG_B], RTC_B_DM) = 0

\* A raw byte decoded in the data mode of a store
Decoded(store, raw) == IF StoreIsBcd(store) THEN bcd_to_bin(raw) ELSE raw

\* The hour of the 12-hour clock with its PM flag on the 24-hour clock
Folded(h, pm) ==
    IF pm /\ h = 12 THEN 12
    ELSE IF pm /\ h < 12 THEN h + 12
    ELSE IF ~pm /\ h = 12 THEN 0
    ELSE h

ClockReport == rep.name \in {"time", "watch"}

TwelveHourStore == AND(cmos[RTC_REG_B], RTC_B_24H) = 0

HourOnDial == Decoded(cmos, cmos[RTC_HOURS] % 128) \in 1..12

\* C11: with the 24H bit of Register B clear, an hours byte whose low seven
\* bits decode to h in 1..12 is shown as 12 (PM, h = 12), h + 12 (PM,
\* h < 12), 0 (AM, h = 12) or h; with the bit set the raw byte is decoded
\* and shown as it is.
C11_HourFolding ==
    ClockReport =>
        IF TwelveHourStore
        THEN HourOnDial =>
                 rep.out.hrs = Folded(Decoded(cmos, cmos[RTC_HOURS] % 128),
                                      cmos[RTC_HOURS] >= 128)
        ELSE rep.out.hrs = Decoded(cmos, cmos[RTC_HOURS])

C11_Witness ==
    /\ rep.name = "time"
    /\ TwelveHourStore
    /\ cmos[RTC_HOURS] >= 128
    /\ Decoded(cmos, cmos[RTC_HOURS] % 128) = 12
    /\ rep.out.hrs = 12

----------------------------------------------------------------------------
(* Codec of the clock fields *)

Digit == 0..9

\* C12: in BCD mode a byte b of 0..99 encoded and decoded again is b, and
\* both nibbles of the encoded byte are decimal digits; in binary mode
\* encoding and decoding are the identity on 0..255.
C12_CodecRoundTrip ==
    rep.name = "codec" =>
        IF StoreIsBcd(cmos)
        THEN rep.out.b \in 0..99 =>
                 /\ rep.out.dec = rep.out.b
                 /\ rep.out.enc \div 16 \in Digit
                 /\ rep.out.enc % 16 \in Digit
        ELSE /\ rep.out.enc = rep.out.b
             /\ rep.out.raw = rep.out.b
             /\ rep.out.dec = rep.out.b

C12_Witness ==
    /\ rep.name = "codec"
    /\ StoreIsBcd(cmos)
    /\ rep.out.b = 99 /\ rep.out.enc = 153 /\ rep.out.dec = 99

----------------------------------------------------------------------------
(* Waiting for the update to end *)

\* The number of transactions at the head of a log that read Register A:
\* the polls of rtc_wait_uip, since every caller reads another cell first
WaitReads(l) ==
    LET others == {k \in 1..Len(l) : l[k][2] # RTC_REG_A}
    IN IF others = {} THEN Len(l)
       ELSE (CHOOSE k \in others : \A j \in others : k <= j) - 1

ShowsUip(t) == t[1] = "r" /\ t[2] = RTC_REG_A /\ t[3] >= RTC_A_UIP

\* The cells a command reads first once the wait is over
FirstCells(name) ==
    CASE name = "time" -> <<RTC_SECONDS, RTC_MINUTES, RTC_HOURS>>
      [] name = "alarm" -> <<RTC_ALARM_SEC, RTC_ALARM_MIN, RTC_ALARM_HRS>>
      [] OTHER -> AllCells

Waited == rep.name \in {"time", "alarm", "dump", "compare", "save"}
              /\ rep.log # <<>>

\* C13: rtc_wait_uip ends after at most 10000 reads of Register A, also when
\* the UIP bit never clears, and ends with the first read that shows the bit
\* clear; in both cases the caller goes on to read its cells.
C13_WaitTerminates ==
    Waited =>
        LET n == WaitReads(rep.log)
            cells == FirstCells(rep.name)
        IN /\ n \in 1..RTC_UIP_TIMEOUT
           /\ \A k \in 1..(n - 1) : ShowsUip(rep.log[k])
           /\ ShowsUip(rep.log[n]) => n = RTC_UIP_TIMEOUT
           /\ Len(rep.log) >= n + Len(cells)
           /\ \A i \in 1..Len(cells) :
                  rep.log[n + i][1] = "r" /\ rep.log[n + i][2] = cells[i]

C13_Witness ==
    /\ rep.name = "dump"
    /\ uip = UIP_STUCK
    /\ WaitReads(rep.log) = RTC_UIP_TIMEOUT
    /\ ShowsUip(rep.log[RTC_UIP_TIMEOUT])
    /\ Len(rep.log) > RTC_UIP_TIMEOUT + CMOS_SIZE

----------------------------------------------------------------------------
(* Snapshots *)

ReadOnlyCells == {RTC_REG_C, RTC_REG_D}

\* The last report was a save that wrote the file, and no command has
\* changed the store since
Exported ==
    /\ rep.name = "save"
    /\ file.exists
    /\ file.bytes = rep.out.data

\* The step is a load of the file just saved
RoundTrip ==
    /\ Exported
    /\ nops' = nops + 1
    /\ cmd' = [name |-> "load", args |-> <<file>>]

\* C14 as stated: a save followed by a load of the saved file leaves every
\* cell but the read-only cells 12 and 13 as it was, Register B included.
C14_RoundTripKeepsAll ==
    [][RoundTrip => \A a \in Addr \ ReadOnlyCells : cmos'[a] = cmos[a]]_vars

\* C14 amended: a save followed by a load of the saved file leaves every
\* cell but 12 and 13 as it was, except that the SET bit of Register B is
\* clear afterwards.
C14_RoundTripKeepsAllButSet ==
    [][RoundTrip =>
         \A a \in Addr \ ReadOnlyCells :
             cmos'[a] = IF a = RTC_REG_B THEN ANDNOT(cmos[a], RTC_B_SET)
                        ELSE cmos[a]]_vars

C14_Witness ==
    /\ cmd = [name |-> "load", args |-> <<file>>]
    /\ rc = 0
    /\ file.exists
    /\ \A a \in Addr \ (ReadOnlyCells \cup {RTC_REG_A}) :
           file.bytes[a + 1] = pre[a]
    /\ pre[RTC_REG_B] >= RTC_B_SET
    /\ cmos[RTC_REG_B] = pre[RTC_REG_B] - RTC_B_SET

\* The store a load leaves, from the store before it and the first 64 bytes
\* of the file alone
Imported(store, bytes) ==
    [a \in Addr |->
        IF a \in ReadOnlyCells THEN store[a]
        ELSE IF a = RTC_REG_A THEN bytes[a + 1] % RTC_A_UIP
        ELSE IF a = RTC_REG_B THEN bytes[a + 1] % RTC_B_SET
        ELSE bytes[a + 1]]

\* The last command was a load, and no report has run since
Loaded == cmd.name = "load" /\ rep = NoReport

LoadedFile == cmd.args[1]

\* C15: a load takes a file of exactly 64 or exactly 128 bytes, and of a
\* 128-byte file only the first 64 bytes decide the store; a file of any
\* other length is refused with a failure status before any transaction
\* with the store, every cell left as it was.
C15_ImportLength ==
    Loaded =>
        IF LoadedFile.exists /\ Len(LoadedFile.bytes) \in {CMOS_SIZE, 128}
        THEN /\ rc = 0
             /\ cmos = Imported(pre, SubSeq(LoadedFile.bytes, 1, CMOS_SIZE))
        ELSE /\ rc # 0
             /\ log = <<>>
             /\ cmos = pre

C15_Witness ==
    /\ Loaded
    /\ Len(LoadedFile.bytes) = 128
    /\ LoadedFile.bytes[128] = 255
    /\ rc = 0
    /\ cmos # pre
    /\ cmos = Imported(pre, SubSeq(LoadedFile.bytes, 1, CMOS_SIZE))

----------------------------------------------------------------------------
(* Factory reset *)

ResetStep == cmd'.name = "factory-reset" /\ nops' = nops + 1

\* C16: factory_reset leaves a store on which verify() is true, and run
\* again on the store it left it changes no byte of it.
C16_ResetIdempotent ==
    [][ResetStep =>
         /\ VerifyOn(cmos')
         /\ cmd.name = "factory-reset" => cmos' = cmos]_vars

C16_Witness ==
    /\ cmd.name = "factory-reset"
    /\ nops >= 2
    /\ cmos = pre
    /\ cmos[CMOS_FLOPPY] = 48
    /\ VerifyOn(cmos)

----------------------------------------------------------------------------
(* I/O ports *)

\* The last report began with a read of port 0x61, a read of port 0x62 and
\* a call of amstrad_read_sysstat2: transactions 3..8 of its port log
Sysstat2Read == rep.name \in {"amstrad", "probe"}

\* Equal but for the nibble select bit
SameButSelect(a, b) == ANDNOT(a, PB_NIBBLE_SEL) = ANDNOT(b, PB_NIBBLE_SEL)

\* C17: amstrad_read_sysstat2 returns (hi << 4) | lo, hi the low four bits
\* read from port 0x62 with bit 2 of port 0x61 clear and lo those read with
\* it set; on return port 0x61 holds the value it had on entry, and the
\* values written to it in between differ from that value in bit 2 at most.
C17_Sysstat2 ==
    Sysstat2Read =>
        LET l  == rep.out.plog
            pb == l[3][3]
        IN /\ l[3] = <<"in", PORT_PB, pb>>
           /\ l[4] = <<"out", PORT_PB, ANDNOT(pb, PB_NIBBLE_SEL)>>
           /\ l[5][1] = "in" /\ l[5][2] = PORT_STATUS2
           /\ l[6] = <<"out", PORT_PB, OR(pb, PB_NIBBLE_SEL)>>
           /\ l[7][1] = "in" /\ l[7][2] = PORT_STATUS2
           /\ l[8] = <<"out", PORT_PB, pb>>
           /\ l[9] = <<"in", PORT_PB, pb>>
           /\ \A k \in {4, 6} : SameButSelect(l[k][3], pb)
           /\ rep.out.stat2 = (l[5][3] % 16) * 16 + (l[7][3] % 16)
           /\ ports.pb = pb

C17_Witness ==
    /\ rep.name = "amstrad"
    /\ ports.pb = 72
    /\ ports.stat2 = 165
    /\ rep.out.stat2 = 165
    /\ rep.out.plog[4] = <<"out", PORT_PB, 72>>
    /\ rep.out.plog[6] = <<"out", PORT_PB, 76>>

ProbeStep == rep'.name = "probe"

\* C18: the probe command reads but does not modify hardware state: after
\* debug_probe every cell of the store, the interrupt flags of Register C
\* among them, and every register behind the I/O ports is as it was before.
C18_ProbeReadsOnly ==
    [][ProbeStep => cmos' = cmos /\ ports' = ports]_vars

----------------------------------------------------------------------------
(* Read paths and the checksum *)

ReportNames ==
    {"show", "time", "alarm", "floppy", "harddisk", "equipment", "memory",
     "status", "diag", "battery", "dump", "read", "compare", "save"}

\* The step is a report command
ReportStep == nops' = nops /\ rep'.name \in ReportNames

\* The step is the checksum command
ChecksumStep == nops' = nops + 1 /\ cmd'.name = "checksum"

NoWrites(l) == \A k \in 1..Len(l) : l[k][1] # "w"

\* C19: no report issues a write transaction, so the cells 0x2E and 0x2F
\* and a checksum mismatch are after a report what they were before it; the
\* checksum command alone rewrites the two cells, and only if verify() is
\* false.
C19_ReadPathsNeverRepair ==
    [][/\ ReportStep =>
            /\ NoWrites(rep'.log)
            /\ cmos'[CMOS_CHECKSUM_HI] = cmos[CMOS_CHECKSUM_HI]
            /\ cmos'[CMOS_CHECKSUM_LO] = cmos[CMOS_CHECKSUM_LO]
            /\ ChecksumValid(cmos') <=> ChecksumValid(cmos)
       /\ ChecksumStep =>
            IF VerifyOn(cmos) THEN NoWrites(log') /\ cmos' = cmos
            ELSE ~NoWrites(log') /\ VerifyOn(cmos')]_vars

C19_Witness ==
    /\ rep.name = "dump"
    /\ rep.out.valid = FALSE
    /\ NoWrites(rep.log)
    /\ ~ChecksumValid(cmos)
    /\ Len(rep.log) > CMOS_SIZE

----------------------------------------------------------------------------
(* The Register B snapshot of the time report *)

\* The positions of a log that read the cell a
ReadsOf(l, a) == {k \in 1..Len(l) : l[k][1] = "r" /\ l[k][2] = a}

\* What the first read of the cell a in a log returned
FirstRead(l, a) ==
    l[CHOOSE k \in ReadsOf(l, a) : \A j \in ReadsOf(l, a) : k <= j][3]

\* A raw byte decoded in the data mode of a Register B value
DecodedIn(regb, raw) ==
    IF AND(regb, RTC_B_DM) = 0 THEN bcd_to_bin(raw) ELSE raw

\* C20: the time report reads Register B exactly once and decodes every
\* field in the data mode of that one value, so that a change of the DM bit
\* while it runs cannot make the fields decode differently from each other.
C20_SingleSnapshot ==
    rep.name = "time" =>
        LET l == rep.log
            snap == FirstRead(l, RTC_REG_B)
        IN /\ Cardinality(ReadsOf(l, RTC_REG_B)) = 1
           /\ rep.out.sec = DecodedIn(snap, FirstRead(l, RTC_SECONDS))
           /\ rep.out.min = DecodedIn(snap, FirstRead(l, RTC_MINUTES))
           /\ rep.out.dom = DecodedIn(snap, FirstRead(l, RTC_DAY_OF_MONTH))
           /\ rep.out.yr = DecodedIn(snap, FirstRead(l, RTC_YEAR))
           /\ rep.out.cen = DecodedIn(snap, FirstRead(l, CMOS_CENTURY))

\* C20, the decoding alone: every field of the time report is decoded in
\* the data mode of the first value read from Register B.
C20_DecodedInSnapshotMode ==
    rep.name = "time" =>
        LET l == rep.log
            snap == FirstRead(l, RTC_REG_B)
        IN /\ rep.out.sec = DecodedIn(snap, FirstRead(l, RTC_SECONDS))
           /\ rep.out.min = DecodedIn(snap, FirstRead(l, RTC_MINUTES))
           /\ rep.out.dom = DecodedIn(snap, FirstRead(l, RTC_DAY_OF_MONTH))
           /\ rep.out.yr = DecodedIn(snap, FirstRead(l, RTC_YEAR))
           /\ rep.out.cen = DecodedIn(snap, FirstRead(l, CMOS_CENTURY))

----------------------------------------------------------------------------
(* The writes of a load *)

\* The write transactions of a log, in order
Writes(l) == SelectSeq(l, LAMBDA e : e[1] = "w")

\* The address of the k-th write of the cell loop of load_cmos, which
\* passes over cells 12 and 13
LoopAddress(k) == IF k <= RTC_REG_C THEN k - 1 ELSE k + 1

\* The last command was a load that went through
LoadSucceeded == cmd.name = "load" /\ rc = 0

\* C21: a load writes, after the write that halts updates, the cells in
\* ascending address order 0..63, each cell but 12 and 13 exactly once with
\* its byte of the file, never writes cell 12 or 13, and ends with a write
\* of byte 11 of the file with bit 7 cleared to Register B, which then holds
\* that value whatever it held before the load.
C21_ImportWriteOrder ==
    LoadSucceeded =>
        LET w == Writes(log)
            bytes == LoadedFile.bytes
        IN /\ Len(w) = CMOS_SIZE
           /\ w[1][2] = RTC_REG_B
           /\ \A k \in 1..(CMOS_SIZE - 2) :
                  w[k + 1] = <<"w", LoopAddress(k), bytes[LoopAddress(k) + 1]>>
           /\ \A k \in 1..Len(log) :
                  log[k][1] = "w" => log[k][2] \notin ReadOnlyCells
           /\ log[Len(log)] =
                  <<"w", RTC_REG_B, AND(bytes[RTC_REG_B + 1], 127)>>
           /\ Loaded => cmos[RTC_REG_B] = AND(bytes[RTC_REG_B + 1], 127)

C21_Witness ==
    /\ LoadSucceeded
    /\ Loaded
    /\ LoadedFile.bytes[RTC_REG_B + 1] >= RTC_B_SET
    /\ Len(Writes(log)) = CMOS_SIZE
    /\ cmos[RTC_REG_B] = LoadedFile.bytes[RTC_REG_B + 1] - RTC_B_SET
    /\ cmos[RTC_REG_B] # ANDNOT(pre[RTC_REG_B], RTC_B_SET)

----------------------------------------------------------------------------
(* The checksum after a load *)

\* The first 64 bytes of a file, as a store
FileStore(bytes) == [a \in Addr |-> bytes[a + 1]]

\* C22: a load does not recompute the checksum: after a successful load
\* cells 0x2E and 0x2F hold bytes 0x2E and 0x2F of the file, and verify() is
\* true exactly when those two bytes of the file are the sum mod 65536 of
\* its bytes 0x10..0x2D.
C22_ImportKeepsFileChecksum ==
    Loaded /\ rc = 0 =>
        /\ cmos[CMOS_CHECKSUM_HI] = LoadedFile.bytes[CMOS_CHECKSUM_HI + 1]
        /\ cmos[CMOS_CHECKSUM_LO] = LoadedFile.bytes[CMOS_CHECKSUM_LO + 1]
        /\ VerifyOn(cmos) <=> ChecksumValid(FileStore(LoadedFile.bytes))

C22_Witness ==
    /\ Loaded
    /\ rc = 0
    /\ VerifyOn(pre)
    /\ ~ChecksumValid(FileStore(LoadedFile.bytes))
    /\ ~VerifyOn(cmos)
    /\ cmos[CMOS_CHECKSUM_LO] = LoadedFile.bytes[CMOS_CHECKSUM_LO + 1]

\* A load of a file that is consistent in itself leaves verify() true
C22_WitnessConsistent ==
    /\ Loaded
    /\ rc = 0
    /\ LoadedFile.bytes[CMOS_CHECKSUM_LO + 1] # 0
    /\ ChecksumValid(FileStore(LoadedFile.bytes))
    /\ VerifyOn(cmos)

----------------------------------------------------------------------------
(* The single flags of Register B *)

FlagModes == {"24h", "bcd", "sqw", "dse", "pie", "uie"}

\* The last command was one of the single-flag commands
FlagCommand ==
    \/ cmd.name \in {"alarm-enable", "alarm-disable"}
    \/ cmd.name = "set-rtc" /\ cmd.args[1] \in FlagModes

\* The bit of Register B the last command names
NamedBit ==
    IF cmd.name # "set-rtc" THEN RTC_B_AIE
    ELSE CASE cmd.args[1] = "24h" -> RTC_B_24H
           [] cmd.args[1] = "bcd" -> RTC_B_DM
           [] cmd.args[1] = "sqw" -> RTC_B_SQWE
           [] cmd.args[1] = "dse" -> RTC_B_DSE
           [] cmd.args[1] = "pie" -> RTC_B_PIE
           [] cmd.args[1] = "uie" -> RTC_B_UIE

\* Whether the last command asks for its bit to be set: the bcd mode is
\* the data mode bit clear
NamedBitAsked ==
    IF cmd.name = "alarm-enable" THEN TRUE
    ELSE IF cmd.name = "alarm-disable" THEN FALSE
    ELSE IF cmd.args[1] = "bcd" THEN cmd.args[2] = 0
    ELSE cmd.args[2] # 0

\* C23: alarm-enable, alarm-disable and set-rtc 24h/bcd/sqw/dse/pie/uie
\* give the one bit of Register B they name the value asked for and change
\* no other bit of Register B and no other cell; set-alarm never changes
\* the alarm-interrupt-enable bit; after set-rtc bcd v the data mode bit is
\* clear exactly when v is not zero.
C23_SingleFlagOnly ==
    /\ FlagCommand =>
          /\ rc = 0
          /\ \A a \in Addr \ {RTC_REG_B} : cmos[a] = pre[a]
          /\ ANDNOT(cmos[RTC_REG_B], NamedBit) = ANDNOT(pre[RTC_REG_B], NamedBit)
          /\ (AND(cmos[RTC_REG_B], NamedBit) # 0) = NamedBitAsked
    /\ cmd.name = "set-alarm" =>
          AND(cmos[RTC_REG_B], RTC_B_AIE) = AND(pre[RTC_REG_B], RTC_B_AIE)
    /\ cmd.name = "set-rtc" /\ cmd.args[1] = "bcd" =>
          (AND(cmos[RTC_REG_B], RTC_B_DM) = 0) = (cmd.args[2] # 0)

\* alarm-enable on a store with updates halted and the alarm cells set
C23_Witness ==
    /\ cmd.name = "alarm-enable"
    /\ pre[RTC_REG_B] >= RTC_B_SET
    /\ AND(pre[RTC_REG_B], RTC_B_AIE) = 0
    /\ cmos[RTC_REG_B] = pre[RTC_REG_B] + RTC_B_AIE
    /\ cmos[RTC_ALARM_SEC] = pre[RTC_ALARM_SEC]

----------------------------------------------------------------------------
(* The bit fields of the configuration bytes *)

\* The last command was a drive type or equipment setter that went through
PackedSetterSucceeded ==
    cmd.name \in {"set-floppy", "set-harddisk", "set-equip"} /\ rc = 0

\* The cell the last command sets a field of
PackedCell ==
    CASE cmd.name = "set-floppy" -> CMOS_FLOPPY
      [] cmd.name = "set-harddisk" -> CMOS_DISK
      [] cmd.name = "set-equip" -> CMOS_EQUIP

\* The bits of that cell which make up the field
PackedMask ==
    CASE cmd.name = "set-floppy" ->
             IF cmd.args[1] \in {"A", "a", "0"} THEN 240 ELSE 15
      [] cmd.name = "set-harddisk" ->
             IF cmd.args[1] \in {"0", "C", "c"} THEN 240 ELSE 15
      [] cmd.name = "set-equip" ->
             IF cmd.args[1] = "video" THEN 48
             ELSE IF cmd.args[1] = "floppy-count" THEN 193
             ELSE 2

\* The value of those bits the command line asks for
PackedValue ==
    CASE cmd.name \in {"set-floppy", "set-harddisk"} ->
             IF PackedMask = 240 THEN cmd.args[2] * 16 ELSE cmd.args[2]
      [] cmd.name = "set-equip" ->
             IF cmd.args[1] = "video" THEN cmd.args[2] * 16
             ELSE IF cmd.args[1] = "floppy-count"
             THEN IF cmd.args[2] = 0 THEN 0 ELSE 1 + (cmd.args[2] - 1) * 64
             ELSE IF cmd.args[2] # 0 THEN 2 ELSE 0

\* C24: set-floppy, set-harddisk and set-equip change only the bits of
\* their own field: the high nibble for the first drive and the low nibble
\* for the second, bit 1 for fpu, bits 4-5 for video, bit 0 and bits 6-7
\* for floppy-count (n in 1..4: bit 0 set and bits 6-7 = n-1; 0: all three
\* clear); the other bits of the cell are kept and, apart from the
\* checksum cells, no other cell changes.
C24_PackedFieldsOnly ==
    PackedSetterSucceeded =>
        /\ cmos[PackedCell] = ANDNOT(pre[PackedCell], PackedMask) + PackedValue
        /\ \A a \in Addr \ {PackedCell, CMOS_CHECKSUM_HI, CMOS_CHECKSUM_LO} :
               cmos[a] = pre[a]

\* floppy-count 2 on an equipment byte with bits 6-7 and other bits set
C24_Witness ==
    /\ PackedSetterSucceeded
    /\ cmd.args = <<"floppy-count", 2>>
    /\ pre[CMOS_EQUIP] >= 192
    /\ AND(pre[CMOS_EQUIP], 62) # 0
    /\ cmos[CMOS_EQUIP] = 65 + AND(pre[CMOS_EQUIP], 62)

----------------------------------------------------------------------------
(* Lookups stay inside their tables *)

\* C25: whatever byte a register or port holds, no report indexes a table
\* outside it: the day-of-week index is in 0..7 and the month index in
\* 0..12 (a decoded value above is shown as entry 0), the rate index in
\* 0..15, the divider index in 0..7, the drive geometry index type-1 in
\* 0..13 and used for types 1..14 only, and a language name and a display
\* name come back for every code, the display code 1 as unknown/reserved.
C25_LookupsInBounds ==
    /\ rep.name = "time" =>
          /\ rep.out.dow \in 0..7 /\ rep.out.dow < Len(day_names)
          /\ rep.out.mon \in 0..12 /\ rep.out.mon < Len(month_names)
          /\ rep.out.day \in STRING /\ rep.out.month \in STRING
          /\ FirstRead(rep.log, RTC_DAY_OF_WEEK) = 255 => rep.out.dow = 0
          /\ FirstRead(rep.log, RTC_MONTH) = 255 => rep.out.mon = 0
    /\ rep.name = "status" =>
          /\ rep.out.rs \in 0..15 /\ rep.out.rs < Len(rate_freq)
          /\ rep.out.dv \in 0..7 /\ rep.out.dv < Len(divider_name)
          /\ rep.out.rate \in STRING /\ rep.out.divider \in STRING
    /\ rep.name = "harddisk" =>
          \A d \in {rep.out.drive0, rep.out.drive1} :
              d.kind = "type" =>
                  /\ d.at \in 0..13
                  /\ d.at < Len(hd_types)
                  /\ Len(d.entry) = 5
    /\ rep.name = "harddisk" =>
          /\ (rep.out.drive0.kind = "type") = (rep.out.type0 \in 1..14)
          /\ (rep.out.drive1.kind = "type") = (rep.out.type1 \in 1..14)
    /\ rep.name = "amstrad" =>
          /\ rep.out.language \in STRING /\ rep.out.language # "Unknown"
          /\ rep.out.display \in STRING
          /\ (rep.out.lpt_status \div 64 = 1)
                 = (rep.out.display = "Unknown (reserved)")

\* The time report of a store whose day-of-week cell decodes to more than
\* 7 and whose month cell decodes to more than 12
C25_Witness ==
    /\ rep.name = "time"
    /\ FirstRead(rep.log, RTC_DAY_OF_WEEK) = 255
    /\ FirstRead(rep.log, RTC_MONTH) = 255
    /\ rep.out.dow = 0
    /\ rep.out.day = "???"
    /\ rep.out.month = "???"

----------------------------------------------------------------------------
(* Register C is read once *)

\* The last report is one that prints Register C: status, probe, dump, or
\* a raw read of cell 12
PrintsRegisterC ==
    \/ rep.name \in {"status", "probe", "dump"}
    \/ rep.name = "read" /\ ReadsOf(rep.log, RTC_REG_C) # {}

\* The values of Register C a report printed
PrintedRegisterC ==
    CASE rep.name = "status" -> {rep.out.regc}
      [] rep.name = "dump" -> {rep.out.data[RTC_REG_C + 1]}
      [] rep.name = "probe" -> {rep.out.cmos.regs[3]}
      [] rep.name = "read" -> {rep.out.hex, rep.out.dec}

\* C26: a report that prints Register C, whose flags a read clears, reads
\* cell 12 exactly once and prints what that read returned, the value the
\* cell held before the report, wherever it prints it: the status report,
\* the probe, the dump and the raw read of address 0x0C.
C26_RegisterCReadOnce ==
    PrintsRegisterC =>
        /\ Cardinality(ReadsOf(rep.log, RTC_REG_C)) = 1
        /\ PrintedRegisterC = {FirstRead(rep.log, RTC_REG_C)}

\* C26 for the reports other than the raw read
C26_RegisterCReadOnceByReports ==
    PrintsRegisterC /\ rep.name # "read" =>
        /\ Cardinality(ReadsOf(rep.log, RTC_REG_C)) = 1
        /\ PrintedRegisterC = {FirstRead(rep.log, RTC_REG_C)}

----------------------------------------------------------------------------
(* Fill *)

\* The last command was a fill that went through, of a range and a value
\* typed within bounds
FillSucceeded ==
    /\ cmd.name = "fill"
    /\ rc = 0
    /\ 0 <= cmd.args[1] /\ cmd.args[1] <= cmd.args[2] /\ cmd.args[2] <= 63
    /\ cmd.args[3] \in Byte

FillRange == cmd.args[1]..cmd.args[2]

\* C27: after a successful fill START END VAL every cell of [START, END]
\* but the read-only cells 12 and 13 holds VAL, every cell outside the
\* range but the checksum cells is unchanged, and no write went to cell 12
\* or 13.
C27_FillRange ==
    FillSucceeded =>
        /\ \A a \in FillRange \ ReadOnlyCells : cmos[a] = cmd.args[3]
        /\ \A a \in Addr \ (FillRange \cup {CMOS_CHECKSUM_HI, CMOS_CHECKSUM_LO}) :
               cmos[a] = pre[a]
        /\ \A k \in 1..Len(log) :
               log[k][1] = "w" => log[k][2] \notin ReadOnlyCells

\* C27 amended: after a successful fill START END VAL every cell of
\* [START, END] but the read-only cells 12 and 13 and the checksum cells
\* holds VAL, Register A holding it with bit 7 clear; every cell outside
\* the range but the checksum cells is unchanged; no write went to cell 12
\* or 13.
C27_FillRangeButRegAAndChecksum ==
    FillSucceeded =>
        /\ \A a \in FillRange \ (ReadOnlyCells \cup
                                 {RTC_REG_A, CMOS_CHECKSUM_HI, CMOS_CHECKSUM_LO}) :
               cmos[a] = cmd.args[3]
        /\ RTC_REG_A \in FillRange =>
               cmos[RTC_REG_A] = ANDNOT(cmd.args[3], RTC_A_UIP)
        /\ \A a \in Addr \ (FillRange \cup {CMOS_CHECKSUM_HI, CMOS_CHECKSUM_LO}) :
               cmos[a] = pre[a]
        /\ \A k \in 1..Len(log) :
               log[k][1] = "w" => log[k][2] \notin ReadOnlyCells

\* A fill of the whole store: the checksum cells end up with the sum, not
\* with the value
C27_Witness ==
    /\ FillSucceeded
    /\ cmd.args = <<0, 63, 85>>
    /\ cmos[0] = 85 /\ cmos[RTC_REG_A] = 85 /\ cmos[63] = 85
    /\ cmos[RTC_REG_C] = pre[RTC_REG_C] /\ cmos[RTC_REG_C] # 85
    /\ StoredChecksum(cmos) = 30 * 85

\* A fill over Register A with a value that has bit 7 set
C27_WitnessRegA ==
    /\ FillSucceeded
    /\ cmd.args = <<10, 11, 200>>
    /\ cmos[RTC_REG_A] = 72
    /\ cmos[RTC_REG_B] = 200

----------------------------------------------------------------------------
(* Time round trip *)

\* The last report is a time report and the last command a set-time that
\* went through
TimeSetThenShown ==
    /\ rep.name = "time"
    /\ cmd.name = "set-time"
    /\ rc = 0

\* C28: set-time(h, m, s) followed by the time report shows hours h, minutes
\* m and seconds s in each data mode and each hour mode of Register B, and
\* in 12-hour mode the hour cell set-time wrote holds 1..12 in its low 7
\* bits, its top bit being the PM flag.
C28_TimeRoundTrip ==
    /\ TimeSetThenShown =>
          /\ rep.out.hrs = cmd.args[2]
          /\ rep.out.min = cmd.args[3]
          /\ rep.out.sec = cmd.args[4]
    /\ cmd.name = "set-time" /\ rc = 0 /\ AND(cmos[RTC_REG_B], RTC_B_24H) = 0 =>
          /\ Decoded(cmos, AND(cmos[RTC_HOURS], 127)) \in 1..12
          /\ (cmos[RTC_HOURS] >= 128) = (cmd.args[2] >= 12)

\* C28 in 24-hour mode, and the minutes and seconds in either hour mode
C28_TimeRoundTrip24Hour ==
    TimeSetThenShown =>
        /\ rep.out.h24 => rep.out.hrs = cmd.args[2]
        /\ rep.out.min = cmd.args[3]
        /\ rep.out.sec = cmd.args[4]

----------------------------------------------------------------------------
(* Updates stay halted *)

\* The positions of a log that write Register B
RegBWrites(l) == {k \in 1..Len(l) : l[k][1] = "w" /\ l[k][2] = RTC_REG_B}

\* Between its first and its last write of Register B a log has no write
\* of Register B with the SET bit clear
HaltedThroughout(l) ==
    \A k \in RegBWrites(l) :
        \/ AND(l[k][3], RTC_B_SET) # 0
        \/ \A j \in RegBWrites(l) : j <= k

\* C29: in a load and in a factory reset the SET bit of Register B stays
\* set from the write that halts updates to the last write of Register B:
\* no write between the two, the write of byte 11 of the file in the loop
\* and the early write of 0x02 by factory_reset included, clears bit 7.
C29_HaltedUntilFinalWrite ==
    cmd.name \in {"load", "factory-reset"} /\ rc = 0 =>
        /\ AND(log[2][3], RTC_B_SET) # 0
        /\ HaltedThroughout(log)

\* C29 for the load alone
C29_LoadHaltedUntilFinalWrite ==
    cmd.name = "load" /\ rc = 0 => HaltedThroughout(log)

\* The halt bracket of the clock setters, by the same measure
C29_ClockSettersHalted ==
    cmd.name \in {"set-time", "set-date", "set-dow", "set-alarm"} /\ rc = 0 =>
        HaltedThroughout(log)

----------------------------------------------------------------------------
(* What a factory reset leaves does not depend on what it found *)

\* The cells C30 speaks of: Registers A and B, the alarm cells, and every
\* cell from 0x0E up
ResetCells ==
    {RTC_REG_A, RTC_REG_B, RTC_ALARM_SEC, RTC_ALARM_MIN, RTC_ALARM_HRS}
        \cup 14..63

\* The cells of 0x0E..0x3F factory_reset has no write for, and the
\* checksum cells, which hold a sum that covers two of them
ResetLeftAlone == {17, 19, 48, 49}

\* The store a factory reset leaves when it starts from the blank store
ResetOfBlank == factory_reset(Mach([a \in Addr |-> 0])).m.cmos

\* C30: after factory_reset any two stores agree on Registers A and B, the
\* alarm cells 1, 3, 5 and every cell of 0x0E..0x3F, whatever they held
\* before: each of these cells holds what the reset of the blank store
\* leaves in it.
C30_ResetDeterministic ==
    cmd.name = "factory-reset" =>
        \A a \in ResetCells : cmos[a] = ResetOfBlank[a]

\* C30 for the cells factory_reset writes: all of the above but 0x11, 0x13,
\* 0x30 and 0x31, which keep what they held, and the checksum cells, which
\* hold the sum over what cells 0x11 and 0x13 held
C30_ResetDeterministicWhereWritten ==
    cmd.name = "factory-reset" =>
        /\ \A a \in ResetCells \ (ResetLeftAlone \cup
                                  {CMOS_CHECKSUM_HI, CMOS_CHECKSUM_LO}) :
               cmos[a] = ResetOfBlank[a]
        /\ \A a \in ResetLeftAlone : cmos[a] = pre[a]
        /\ StoredChecksum(cmos) =
               StoredChecksum(ResetOfBlank) + cmos[17] + cmos[19]

============================================================================
